---- MODULE Spec2Model ----
(***************************************************************************)
(* Model of the screenshot editor component (Magician.vue): the chat       *)
(* classification engine, the layer store, the censor store, the session   *)
(* snapshot and the raster export.                                         *)
(*                                                                         *)
(* Text is a sequence of one-character strings.  Inline markup produced by *)
(* the classifier (<span style="color: ...">, </span>) is kept as one      *)
(* token per tag; user text is drawn from an alphabet without '<' and '&'. *)
(***************************************************************************)
EXTENDS Integers, Sequences, FiniteSets, TLC

VARIABLES
  chatLayers,            \* ref<ChatLayer[]>
  selectedChatLayerId,   \* ref<number | null>
  nextChatLayerId,       \* let nextChatLayerId
  censoredRegions,       \* ref<CensoredRegion[]>
  selectedText,          \* reactive selection context
  stripTimestamps,       \* ref<boolean>
  characterName,         \* ref<string>
  chatLineWidth,         \* ref<number>
  droppedImageSrc,       \* ref<string | null>
  imageTransform,        \* reactive({ x, y, scale })
  isImageDraggingEnabled,  \* ref<boolean>, the image drag/zoom mode
  isChatDraggingEnabled,   \* ref<boolean>, the chat drag/zoom mode
  isPanning,             \* ref<boolean>, an image drag is under way
  isChatPanning,         \* ref<boolean>, a chat drag is under way
  isResizingChatPanel,   \* ref<boolean>, a resize of the chat panel is under way
  listeners,             \* the event listeners registered on document
  readers,               \* the FileReaders of the session in the order of their
                         \* readAsDataURL calls, each with its result and whether
                         \* its load event is still to come
  cookie,                \* the 'editorState' cookie
  canvas,                \* what the last export painted
  op,                    \* the handler that ran last: its name, its argument and
                         \* the sizes of the two stores when it was called
  usedIds,               \* history: every id ever given to a created layer
  alwaysPromptSaveLocation,  \* ref<boolean>
  filePickerSupported,   \* 'showSaveFilePicker' in window
  screenshotTheme,       \* ref<string>, the name given to the saved screenshot
  exports                \* the saveImage calls of the session, each with the
                         \* await it is at and what it has handed over

vars == <<chatLayers, selectedChatLayerId, nextChatLayerId, censoredRegions,
          selectedText, stripTimestamps, characterName, chatLineWidth,
          droppedImageSrc, imageTransform, cookie, canvas, op, usedIds,
          alwaysPromptSaveLocation, filePickerSupported, screenshotTheme, exports,
          isImageDraggingEnabled, isChatDraggingEnabled, isPanning, isChatPanning,
          isResizingChatPanel, listeners, readers>>

Null == "null"          \* droppedImageSrc = null
NullId == 0             \* selectedChatLayerId = null

----------------------------------------------------------------------------
(* Strings                                                                 *)

UpperChars == <<"A","B","C","D","E","F","G","H","I","J","K","L","M",
                "N","O","P","Q","R","S","T","U","V","W","X","Y","Z">>
LowerChars == <<"a","b","c","d","e","f","g","h","i","j","k","l","m",
                "n","o","p","q","r","s","t","u","v","w","x","y","z">>
DigitChars == {"0","1","2","3","4","5","6","7","8","9"}
WhiteSpace == {" ", "\t", "\r"}

Range(f) == {f[i] : i \in DOMAIN f}

ToLower(c) ==
  IF \E i \in 1..26 : UpperChars[i] = c
    THEN LowerChars[CHOOSE i \in 1..26 : UpperChars[i] = c]
    ELSE c

LowerSeq(s) == [i \in 1..Len(s) |-> ToLower(s[i])]

IsWordChar(c) == c \in Range(UpperChars) \cup Range(LowerChars) \cup DigitChars \cup {"_"}

\* the literal lit occurs in s at (1-based) position i
MatchAt(s, lit, i) ==
  /\ i >= 1
  /\ i + Len(lit) - 1 <= Len(s)
  /\ \A k \in 1..Len(lit) : s[i + k - 1] = lit[k]

Has(s, lit) == \E i \in 1..Len(s) : MatchAt(s, lit, i)

\* /lit/i : lit is given in lower case
HasCI(s, lit) == Has(LowerSeq(s), lit)

\* \b between positions i-1 and i
BoundaryAt(s, i) ==
  (i > 1 /\ i - 1 <= Len(s) /\ IsWordChar(s[i - 1])) # (i >= 1 /\ i <= Len(s) /\ IsWordChar(s[i]))

\* /\blit\b/i
HasWordCI(s, lit) ==
  \E i \in 1..Len(s) :
    /\ MatchAt(LowerSeq(s), lit, i)
    /\ BoundaryAt(s, i)
    /\ BoundaryAt(s, i + Len(lit))

\* String.prototype.slice(from, to) with 0-based, end-exclusive, clamped indices
Slice(s, from, to) ==
  LET f == IF from < 0 THEN 0 ELSE IF from > Len(s) THEN Len(s) ELSE from
      t == IF to < 0 THEN 0 ELSE IF to > Len(s) THEN Len(s) ELSE to
  IN  IF t <= f THEN <<>> ELSE SubSeq(s, f + 1, t)

SliceFrom(s, from) == Slice(s, from, Len(s))

\* String.prototype.trim() !== ''
TrimNonEmpty(s) == \E i \in 1..Len(s) : s[i] \notin WhiteSpace

RECURSIVE Concat(_)
Concat(ss) == IF ss = <<>> THEN <<>> ELSE Head(ss) \o Concat(Tail(ss))

\* String.prototype.split(sep) for a one-character separator
RECURSIVE SplitChar(_, _)
SplitChar(s, sep) ==
  IF \E i \in 1..Len(s) : s[i] = sep
    THEN LET i == CHOOSE j \in 1..Len(s) : s[j] = sep /\ \A k \in 1..(j - 1) : s[k] # sep
         IN  <<SubSeq(s, 1, i - 1)>> \o SplitChar(SubSeq(s, i + 1, Len(s)), sep)
    ELSE <<s>>

\* Array.prototype.join(' ')
RECURSIVE JoinSpace(_)
JoinSpace(ss) ==
  IF ss = <<>> THEN <<>>
  ELSE IF Len(ss) = 1 THEN ss[1]
  ELSE ss[1] \o <<" ">> \o JoinSpace(Tail(ss))

----------------------------------------------------------------------------
(* PatternTable                                                            *)

L_radioHead == <<"*","*"," ","[","s",":"," ">>
L_radioCh == <<" ","|"," ","c","h",":"," ">>
L_gParen == <<"g",")">>
L_bang == <<"[","!","]">>
L_info == <<"[","I","N","F","O","]",":">>
L_alert == <<"[","A","L","E","R","T","]">>
L_gym == <<"[","G","Y","M","]">>
L_characterKill == <<"[","C","h","a","r","a","c","t","e","r"," ","k","i","l","l","]">>
L_moneyBracket == <<"[","$">>
L_moneyParen == <<"(","$">>
L_ph == <<" ","P","H",":"," ">>
L_imageSlash == <<"i","m","a","g","e","/">>
L_textPlain == <<"t","e","x","t","/","p","l","a","i","n">>
L_dotTxt == <<".","t","x","t">>

\* /^\*\* \[S: .+? \| CH: .+?\]/i
RadioPattern(s) ==
  LET low == LowerSeq(s) IN
  /\ MatchAt(low, L_radioHead, 1)
  /\ \E i \in (Len(L_radioHead) + 2)..Len(s) :
       /\ MatchAt(low, L_radioCh, i)
       /\ \E j \in (i + Len(L_radioCh) + 1)..Len(s) : s[j] = "]"

\* /\[\$.*g\)/ and /\(\$.*g\)/ and / PH: .*g\)/ : head, anything, "g)"
HeadThenG(s, head) ==
  \E i \in 1..Len(s) :
    /\ MatchAt(s, head, i)
    /\ \E j \in (i + Len(head))..Len(s) : MatchAt(s, L_gParen, j)

\* ColorMapping.pattern.test(s) for the rule at index k of colorMappings
PatternTest(k, s) ==
  CASE k = 1  -> RadioPattern(s)
    [] k = 2  -> HasCI(s, <<"(","c","e","l","l","p","h","o","n","e",")">>)
    [] k = 3  -> HasCI(s, <<"s","a","y","s",":">>) \/ HasCI(s, <<"s","h","o","u","t","s",":">>)
    [] k = 4  -> HasCI(s, <<"(","c","a","r",")">>)
    [] k = 5  -> Len(s) >= 1 /\ s[1] = "*"
    [] k = 6  -> HasWordCI(s, <<"w","h","i","s","p","e","r","s">>)
    [] k = 7  -> \/ HasWordCI(s, <<"y","o","u"," ","p","a","i","d">>) \/ HasWordCI(s, <<"p","a","i","d"," ","y","o","u">>)
                 \/ HasWordCI(s, <<"y","o","u"," ","g","a","v","e">>) \/ HasWordCI(s, <<"g","a","v","e"," ","y","o","u">>)
                 \/ HasWordCI(s, <<"y","o","u"," ","r","e","c","e","i","v","e","d">>)
    [] k = 8  -> HasCI(s, L_gParen)
    [] k = 9  -> HasCI(s, <<"[","l","o","w","]",":">>) \/ HasCI(s, <<"[","l","o","w","e","r","]",":">>)
    [] k = 10 -> Has(s, L_bang)
    [] k = 11 -> Has(s, L_info)
    [] k = 12 -> Has(s, L_alert)
    [] k = 13 -> Has(s, L_gym)
    [] k = 14 -> HasCI(s, <<"[","a","d","v","e","r","t","i","s","e","m","e","n","t","]">>)
    [] k = 15 -> HasCI(s, <<"(","("," ","(","p","m">>)
    [] k = 16 -> HasCI(s, <<"(","("," ","(">>)
    [] k = 17 -> HasCI(s, <<"[","m","e","g","a","p","h","o","n","e","]">>)
    [] k = 18 -> HasCI(s, <<"[","m","i","c","r","o","p","h","o","n","e","]">>)
    [] k = 19 -> HasCI(s, <<"[","i","n","t","e","r","c","o","m","]">>)
    [] k = 20 -> Has(s, L_characterKill)
    [] k = 21 -> HeadThenG(s, L_moneyBracket)
    [] k = 22 -> HeadThenG(s, L_moneyParen)
    [] k = 23 -> HeadThenG(s, L_ph)
    [] OTHER  -> FALSE

NoFlags == [fullLine |-> FALSE, checkPlayerName |-> FALSE, splitPattern |-> FALSE, markerColor |-> ""]

Plain(c) == [color |-> c] @@ NoFlags
Split(c, m) == [color |-> c, fullLine |-> FALSE, checkPlayerName |-> FALSE,
                splitPattern |-> TRUE, markerColor |-> m]

colorMappings == <<
  [color |-> "rgb(214, 207, 140)", fullLine |-> TRUE, checkPlayerName |-> FALSE,
   splitPattern |-> FALSE, markerColor |-> ""],
  [color |-> "rgb(251, 247, 36)", fullLine |-> TRUE, checkPlayerName |-> TRUE,
   splitPattern |-> FALSE, markerColor |-> ""],
  Plain("rgb(241, 241, 241)"),
  Plain("rgb(251, 247, 36)"),
  Plain("rgb(194, 163, 218)"),
  Plain("rgb(237, 168, 65)"),
  Plain("rgb(86, 214, 75)"),
  Plain("rgb(255, 255, 0)"),
  Plain("rgb(150, 149, 149)"),
  Split("rgb(255, 255, 255)", "rgb(255, 0, 195)"),
  Split("rgb(255, 255, 255)", "rgb(27, 124, 222)"),
  Split("rgb(255, 255, 255)", "rgb(27, 124, 222)"),
  Split("rgb(255, 255, 255)", "rgb(22, 106, 189)"),
  Plain("rgb(127, 239, 43)"),
  Plain("rgb(239, 227, 0)"),
  Plain("rgb(139, 138, 138)"),
  Plain("rgb(241, 213, 3)"),
  Plain("rgb(246, 218, 3)"),
  Plain("rgb(26, 131, 232)"),
  Split("rgb(240, 0, 0)", "rgb(56, 150, 243)"),
  Split("rgb(255, 255, 0)", "rgb(86, 214, 75)"),
  Split("rgb(255, 255, 0)", "rgb(86, 214, 75)"),
  Split("rgb(255, 255, 0)", "rgb(86, 214, 75)") >>

Rules == 1..Len(colorMappings)

\* the rules whose pattern.test(text) is true
Matches(text) == {k \in Rules : PatternTest(k, text)}

\* Array.prototype.find over the rule table restricted to the rules in S:
\* the first of them in table order, 0 for undefined
FirstRule(S) == IF S = {} THEN 0 ELSE CHOOSE k \in S : \A j \in S : k <= j

\* length of the match of rule k's splitPattern that starts at position i
\* of s, 0 when it does not match there
SplitMatchLen(k, s, i) ==
  LET lit(l) == IF MatchAt(s, l, i) THEN Len(l) ELSE 0
      upTo(head, close) ==
        IF MatchAt(s, head, i) /\ \E j \in (i + Len(head))..Len(s) : s[j] = close
          THEN (CHOOSE j \in (i + Len(head))..Len(s) :
                  s[j] = close /\ \A m \in (i + Len(head))..(j - 1) : s[m] # close) - i + 1
          ELSE 0
  IN CASE k = 10 -> lit(L_bang)
       [] k = 11 -> lit(L_info)
       [] k = 12 -> lit(L_alert)
       [] k = 13 -> lit(L_gym)
       [] k = 20 -> lit(L_characterKill)
       [] k = 21 -> upTo(L_moneyBracket, "]")
       [] k = 22 -> upTo(L_moneyParen, ")")
       [] k = 23 -> IF MatchAt(s, L_ph, i) THEN Len(s) - i + 1 ELSE 0
       [] OTHER  -> 0

\* splitPattern.test(part)
SplitTest(k, s) == \E i \in 1..Len(s) : SplitMatchLen(k, s, i) > 0

\* position of the leftmost match of rule k's splitPattern in s, 0 for none
FirstSplit(k, s) ==
  FirstRule({i \in 1..Len(s) : SplitMatchLen(k, s, i) > 0})

\* String.prototype.split(splitPattern): the pattern has one capture group,
\* so the matched markers are kept between the pieces
RECURSIVE SplitCapture(_, _)
SplitFrom(k, s, i, n) ==
  <<SubSeq(s, 1, i - 1), SubSeq(s, i, i + n - 1)>>
    \o SplitCapture(k, SubSeq(s, i + n, Len(s)))

SplitAt(k, s, i) == IF i = 0 THEN <<s>> ELSE SplitFrom(k, s, i, SplitMatchLen(k, s, i))

SplitCapture(k, s) == SplitAt(k, s, FirstSplit(k, s))

\* markup tokens of the inline styling
SpanOpen(color) == "<span style=\"color: " \o color \o "\">"
SpanClose == "</span>"
MarkupTokens == {SpanClose} \cup {SpanOpen(colorMappings[k].color) : k \in Rules}
                  \cup {SpanOpen(colorMappings[k].markerColor) : k \in Rules}


----------------------------------------------------------------------------
(* LineClassifier / ChatParser                                             *)

\* processedText.replace(/^\[\d{2}:\d{2}:\d{2}\]\s*/, '')
RECURSIVE DropLeadingSpace(_)
DropLeadingSpace(s) ==
  IF s # <<>> /\ Head(s) \in WhiteSpace \cup {"\n"} THEN DropLeadingSpace(Tail(s)) ELSE s

HasTimestamp(s) ==
  /\ Len(s) >= 10
  /\ s[1] = "[" /\ s[2] \in DigitChars /\ s[3] \in DigitChars
  /\ s[4] = ":" /\ s[5] \in DigitChars /\ s[6] \in DigitChars
  /\ s[7] = ":" /\ s[8] \in DigitChars /\ s[9] \in DigitChars
  /\ s[10] = "]"

StripTimestamp(s) ==
  IF HasTimestamp(s) THEN DropLeadingSpace(SubSeq(s, 11, Len(s))) ELSE s

White == "rgb(255, 255, 255)"

\* parts.map(part => `<span style="color: ...">${part}</span>`).join('')
Spans(k, parts) ==
  Concat([i \in 1..Len(parts) |->
            <<SpanOpen(IF SplitTest(k, parts[i])
                         THEN colorMappings[k].markerColor
                         ELSE colorMappings[k].color)>> \o parts[i] \o <<SpanClose>>])

\* the split tier once processedText.split(splitPattern) is known
SplitTier(processedText, splitPattern, parts) ==
  IF Len(parts) > 1
    THEN [text |-> Spans(splitPattern, parts), color |-> "white"]
    ELSE [text |-> processedText, color |-> "white"]

\* the tiers without the full-line tier
Tiers_NoFullLine(processedText, name, cellphonePattern, fullLinePattern, splitPattern, firstMatch) ==
  IF cellphonePattern # 0 /\ name # <<>>
    THEN [text  |-> processedText,
          color |-> IF MatchAt(processedText, name, 1)
                      THEN White
                      ELSE colorMappings[cellphonePattern].color]
  ELSE IF splitPattern # 0 /\ colorMappings[splitPattern].markerColor # ""
    THEN SplitTier(processedText, splitPattern, SplitCapture(splitPattern, processedText))
  ELSE [text  |-> processedText,
        color |-> IF firstMatch # 0 THEN colorMappings[firstMatch].color ELSE "white"]

\* the tiers with the full-line tier ahead of the player-name tier
Tiers_FullLineFirst(processedText, name, cellphonePattern, fullLinePattern, splitPattern, firstMatch) ==
  IF fullLinePattern # 0
    THEN [text |-> processedText, color |-> colorMappings[fullLinePattern].color]
  ELSE IF cellphonePattern # 0 /\ name # <<>>
    THEN [text  |-> processedText,
          color |-> IF MatchAt(processedText, name, 1)
                      THEN White
                      ELSE colorMappings[cellphonePattern].color]
  ELSE IF splitPattern # 0 /\ colorMappings[splitPattern].markerColor # ""
    THEN SplitTier(processedText, splitPattern, SplitCapture(splitPattern, processedText))
  ELSE [text  |-> processedText,
        color |-> IF firstMatch # 0 THEN colorMappings[firstMatch].color ELSE "white"]

\* the tiers of the lines.map(...) callback, given what the four
\* colorMappings.find calls return (0 for undefined)
Tiers(processedText, name, cellphonePattern, fullLinePattern, splitPattern, firstMatch) ==
  IF cellphonePattern # 0 /\ name # <<>>
    THEN [text  |-> processedText,
          color |-> IF MatchAt(processedText, name, 1)
                      THEN White
                      ELSE colorMappings[cellphonePattern].color]
  ELSE IF fullLinePattern # 0
    THEN [text |-> processedText, color |-> colorMappings[fullLinePattern].color]
  ELSE IF splitPattern # 0 /\ colorMappings[splitPattern].markerColor # ""
    THEN SplitTier(processedText, splitPattern, SplitCapture(splitPattern, processedText))
  ELSE [text  |-> processedText,
        color |-> IF firstMatch # 0 THEN colorMappings[firstMatch].color ELSE "white"]

\* the four finds, over the set m of rules whose pattern matches
ClassifyText(processedText, name, m) ==
  Tiers(processedText, name,
        FirstRule({k \in m : colorMappings[k].checkPlayerName}),
        FirstRule({k \in m : colorMappings[k].fullLine /\ ~colorMappings[k].checkPlayerName}),
        FirstRule({k \in m : colorMappings[k].splitPattern}),
        FirstRule(m))

ProcessedText(line, strip) == IF strip THEN StripTimestamp(line) ELSE line

\* the body of lines.map(...) in parseChatlog, without the id
ClassifyLine(line, strip, name) ==
  ClassifyText(ProcessedText(line, strip), name, Matches(ProcessedText(line, strip)))

\* the filter keeping every line that has a character, blanks included
SurvivingLines_NoTrim(text) == SelectSeq(SplitChar(text, "\n"), LAMBDA line : line # <<>>)

\* sourceText.split('\n').filter(line => line.trim() !== '')
SurvivingLines(text) == SelectSeq(SplitChar(text, "\n"), TrimNonEmpty)

ParsedLine(id, c) == [id |-> id, text |-> c.text, color |-> c.color]

\* lines.map((line, index) => ...)
MapLines(lines, strip, name) ==
  [i \in 1..Len(lines) |-> ParsedLine(i - 1, ClassifyLine(lines[i], strip, name))]

\* the ParsedLine[] that parseChatlog computes for a non-empty source text
ParseLines(text, strip, name) == MapLines(SurvivingLines(text), strip, name)

\* temp.innerHTML = html; temp.textContent
stripHtml(html) == SelectSeq(html, LAMBDA t : t \notin MarkupTokens)


----------------------------------------------------------------------------
(* Bounds and input domains                                                *)

\* chatLineWidth = ref(640)
DefaultChatLineWidth == 640

MaxLayers == 2          \* addChatLayer is not taken beyond this many layers
MaxLayerId == 3         \* no layer is created once nextChatLayerId exceeds it
MaxRegions == 2         \* cycleCensorType does not add beyond this many regions
MaxExports == 2         \* saveImage is not called more often than this in a session

\* layer store: one short text, one selection range
StoreTexts == {<<"a">>}
StoreRanges == {<<0, 1>>}

\* censor store: "ab", a blank line, "c"; ranges inside a line and over the
\* newline only
T_ab == <<"a","b","\n","\n","c">>
CensorTexts == {T_ab}
CensorRanges == {<<0, 1>>, <<0, 2>>, <<4, 5>>, <<2, 3>>}

\* export: "a b c" breaks into three runs at the narrow width, " a b" has a
\* leading space; ranges over a whole line, its first and its third character
T_abc == <<"a"," ","b"," ","c">>
T_sp == <<" ","a"," ","b">>
ExportTexts == {T_abc, T_sp}
ExportRanges == {<<0, 5>>, <<0, 1>>, <<2, 3>>}
NarrowWidth == 10
ExportWidths == {DefaultChatLineWidth, NarrowWidth}

\* classification: a radio line, alone, with the cellphone marker and with the
\* [!] marker; a cellphone line, alone, with the [!] marker and behind the
\* player's name; the player name unset or "B"
T_radio == <<"*","*"," ","[","S",":"," ","1"," ","|"," ","C","H",":"," ","2","]">>
T_cell == <<"(","c","e","l","l","p","h","o","n","e",")">>
T_bang == <<"[","!","]">>
ClassifyTexts == {T_radio, T_radio \o T_cell, T_radio \o T_bang,
                  T_cell, T_cell \o T_bang, <<"B">> \o T_cell}
ClassifyNames == {<<>>, <<"B">>}

\* fallback: "[$5 g)" matches the detection pattern of the first money rule
\* but has no "]" for its split pattern; "says: g)" matches two plain rules
T_money == <<"[","$","5"," ","g",")">>
T_says == <<"s","a","y","s",":"," ","g",")">>
FallbackTexts == {T_money, T_says}

\* timestamps: "[12:34:56] " before "a", before " a", before a radio line and
\* before a second timestamp
T_stamp == <<"[","1","2",":","3","4",":","5","6","]"," ">>
StampTexts == {T_stamp \o <<"a">>, T_stamp \o <<" ","a">>, T_stamp \o T_radio,
               T_stamp \o T_stamp \o <<"a">>}

\* lines: the empty text, and "a" and "b" among blank and empty lines
T_blank == <<" ","\n","a","\n","\n"," ","\t","\n","b","\n">>
LineTexts == {<<>>, T_blank}

\* colours: a line with the [!] marker, one with the [INFO]: marker and a
\* plain one
T_info == L_info \o <<" ","a">>
ColorTexts == {T_bang \o <<" ","a">>, T_info, <<"a">>}

\* screenshot names: the example, the empty name, punctuation only, spaces
\* around and between words, a tab, a hyphen between spaces, and the
\* characters _ and - ; times with one and with two digits in every part
T_myScreenshot == <<"M","y"," ","S","c","r","e","e","n","s","h","o","t","!">>
Themes == {T_myScreenshot, <<>>, <<"!","?">>, <<" ","a"," "," ","b"," ">>, <<"a","\t","b">>,
           <<"a"," ","-"," ","b">>, <<"a","_","b","-","c","1">>, <<"!"," ","a">>}
Times == {[date |-> 5, month |-> 2, fullYear |-> 2024, hours |-> 14, minutes |-> 7],
          [date |-> 31, month |-> 11, fullYear |-> 1999, hours |-> 0, minutes |-> 0],
          [date |-> 10, month |-> 9, fullYear |-> 2031, hours |-> 23, minutes |-> 59]}

\* overlay: the caret of the textarea before and after the first character
OverlayCarets == {0, 1}
OverlayRanges == {<<0, 1>>}

\* files: an image, a text file, a file without MIME type and a text file
\* named like an image or like nothing known; the empty FileList
FileTypes == {<<"i","m","a","g","e","/","p","n","g">>, L_textPlain, <<>>}
FileNames == {<<"a",".","P","N","G">>, <<"a",".","t","x","t">>, <<"a",".","p","d","f">>}
FileLists == {<<>>} \cup {<<[type |-> t, name |-> n]>> : t \in FileTypes, n \in FileNames}
PanDeltas == {-5, 5}
MaxPan == 5             \* the image is not dragged further than this from its place

\* uploads: two image files with different content
MaxUploads == 3         \* no more file reads than this are started in a session
UploadFiles == {[type |-> <<"i","m","a","g","e","/","p","n","g">>, name |-> <<"a",".","P","N","G">>],
                [type |-> <<>>, name |-> <<"b",".","p","n","g">>]}

\* parsing: a plain line and a line with a timestamp
ParseTexts == {<<"a">>, T_stamp \o <<"a">>}

AllTexts ==
  StoreTexts \cup CensorTexts \cup ExportTexts \cup ClassifyTexts \cup StampTexts \cup LineTexts
    \cup ColorTexts \cup FallbackTexts
AllNames == ClassifyNames

\* ParseLines over the input domains, computed once (@@ builds the table)
ParseTable ==
  <<>> @@ [k \in AllTexts \X BOOLEAN \X AllNames |-> ParseLines(k[1], k[2], k[3])]

Parsed(text, strip, name) == ParseTable[<<text, strip, name>>]

----------------------------------------------------------------------------
(* Editor state.  The handlers are state transformers over a record of the  *)
(* component's refs, so that a handler can call another one.               *)

Transform0 == [x |-> 0, y |-> 0, scale |-> 1]

NoSelection == [layerId |-> -1, lineIndex |-> -1, startOffset |-> 0, endOffset |-> 0, text |-> <<>>]

Cur == [chatLayers          |-> chatLayers,
        selectedChatLayerId |-> selectedChatLayerId,
        nextChatLayerId     |-> nextChatLayerId,
        censoredRegions     |-> censoredRegions,
        selectedText        |-> selectedText,
        stripTimestamps     |-> stripTimestamps,
        characterName       |-> characterName,
        chatLineWidth       |-> chatLineWidth,
        droppedImageSrc     |-> droppedImageSrc,
        imageTransform      |-> imageTransform,
        isImageDraggingEnabled |-> isImageDraggingEnabled,
        isChatDraggingEnabled  |-> isChatDraggingEnabled,
        isPanning           |-> isPanning,
        isChatPanning       |-> isChatPanning,
        usedIds             |-> usedIds]

NoOptions == [k \in {} |-> TRUE]

LayerName(n) == "Layer " \o ToString(n)

\* chatLayers.findIndex(l => l.id === id), 1-based, 0 for "not found"
LayerIndex(s, id) ==
  IF \E i \in 1..Len(s.chatLayers) : s.chatLayers[i].id = id
    THEN CHOOSE i \in 1..Len(s.chatLayers) :
           s.chatLayers[i].id = id /\ \A j \in 1..(i - 1) : s.chatLayers[j].id # id
    ELSE 0

LayerIds(layers) == {layers[i].id : i \in 1..Len(layers)}

createChatLayer(s, options) ==
  LET given == "id" \in DOMAIN options
      layer == [id          |-> IF given THEN options.id ELSE s.nextChatLayerId,
                name        |-> IF "name" \in DOMAIN options /\ options.name # ""
                                  THEN options.name
                                  ELSE LayerName(Len(s.chatLayers) + 1),
                text        |-> IF "text" \in DOMAIN options THEN options.text ELSE <<>>,
                parsedLines |-> <<>>,
                transform   |-> IF "transform" \in DOMAIN options
                                  THEN options.transform ELSE Transform0,
                visible     |-> IF "visible" \in DOMAIN options THEN options.visible ELSE TRUE]
  IN  [s EXCEPT !.chatLayers = Append(@, layer),
                !.nextChatLayerId = IF given THEN @ ELSE @ + 1,
                !.usedIds = IF given THEN @ ELSE @ \cup {layer.id}]

\* the layer just pushed by createChatLayer
Created(s) == s.chatLayers[Len(s.chatLayers)]

\* index of the computed activeChatLayer, 0 for undefined
activeChatLayer(s) ==
  IF Len(s.chatLayers) = 0 THEN 0
  ELSE IF s.selectedChatLayerId = NullId THEN 1
  ELSE IF LayerIndex(s, s.selectedChatLayerId) # 0 THEN LayerIndex(s, s.selectedChatLayerId)
  ELSE 1

\* chatlogText setter / parsedChatLines setter: write through to the active layer
SetChatlogText(s, val) ==
  IF activeChatLayer(s) # 0 THEN [s EXCEPT !.chatLayers[activeChatLayer(s)].text = val] ELSE s

SetParsedChatLines(s, val) ==
  IF activeChatLayer(s) # 0 THEN [s EXCEPT !.chatLayers[activeChatLayer(s)].parsedLines = val] ELSE s

\* selectedChatLayerId.value = <the layer createChatLayer has just pushed>.id
SelectCreated(s) == [s EXCEPT !.selectedChatLayerId = Created(s).id]

\* returns the state in which activeChatLayer is defined
ensureActiveLayer(s) ==
  IF activeChatLayer(s) # 0 THEN s
  ELSE SelectCreated(createChatLayer(s, [name |-> LayerName(Len(s.chatLayers) + 1)]))

\* the end of parseChatlog: targetLayer.parsedLines = parsed, then the
\* parsedChatLines setter writes parsed to the active layer
StoreParsed(s, t, parsed) ==
  SetParsedChatLines([s EXCEPT !.chatLayers[t].visible = TRUE,
                               !.chatLayers[t].parsedLines = parsed], parsed)

\* parseChatlog numbering the new lines after those the layer already holds
ParseLayer_Counter(s, t) ==
  StoreParsed(s, t, IF s.chatLayers[t].text = <<>> THEN <<>>
                    ELSE [k \in 1..Len(Parsed(s.chatLayers[t].text, s.stripTimestamps, s.characterName)) |->
                            [Parsed(s.chatLayers[t].text, s.stripTimestamps, s.characterName)[k]
                               EXCEPT !.id = @ + Len(s.chatLayers[t].parsedLines)]])

\* parseChatlog from the point where targetLayer (index t) is known
ParseLayer(s, t) ==
  StoreParsed(s, t, IF s.chatLayers[t].text = <<>> THEN <<>>
                    ELSE Parsed(s.chatLayers[t].text, s.stripTimestamps, s.characterName))

\* parseChatlog(layer); layer is a 1-based index, 0 stands for undefined
parseChatlog(s, layer) ==
  IF layer # 0 THEN ParseLayer(s, layer)
  ELSE ParseLayer(ensureActiveLayer(s), activeChatLayer(ensureActiveLayer(s)))

\* the branch of selectChatLayer for an id that no layer has
SelectFallback(s) == [s EXCEPT !.selectedChatLayerId = s.chatLayers[activeChatLayer(s)].id]

ClearSelection(s) == [s EXCEPT !.selectedText.lineIndex = -1, !.selectedText.layerId = -1]

\* the branch for an existing layer without the parse of unparsed text
SelectExisting_NoParse(s, i) == ClearSelection(s)

\* the branch of selectChatLayer for the layer at index i
SelectExisting(s, i) ==
  ClearSelection(IF s.chatLayers[i].text # <<>> /\ Len(s.chatLayers[i].parsedLines) = 0
                   THEN parseChatlog(s, i) ELSE s)

selectChatLayer(s, id) ==
  IF LayerIndex(s, id) = 0
    THEN SelectFallback(ensureActiveLayer(s))
    ELSE SelectExisting([s EXCEPT !.selectedChatLayerId = id], LayerIndex(s, id))

\* selectChatLayer(layer.id) for the layer createChatLayer has just pushed
SelectNew(s) == selectChatLayer(s, Created(s).id)

addChatLayer(s) == SelectNew(createChatLayer(s, NoOptions))

RemoveAt(seq, i) == SubSeq(seq, 1, i - 1) \o SubSeq(seq, i + 1, Len(seq))

\* chatLayers.splice(index, 1) and the filter of censoredRegions
Spliced(s, id, index) ==
  [s EXCEPT !.chatLayers = RemoveAt(@, index),
            !.censoredRegions = SelectSeq(@, LAMBDA region : region.layerId # id)]

\* const fallback = chatLayers.value[index - 1] ?? chatLayers.value[0]
SelectAfterRemove(s, index) ==
  selectChatLayer(s, IF index - 1 >= 1 THEN s.chatLayers[index - 1].id ELSE s.chatLayers[1].id)

\* removeChatLayer without "always keep at least one layer"
removeChatLayer_NoGuard(s, id) ==
  IF LayerIndex(s, id) = 0 THEN s
  ELSE IF Len(s.chatLayers) = 1 THEN Spliced(s, id, LayerIndex(s, id))
  ELSE SelectAfterRemove(Spliced(s, id, LayerIndex(s, id)), LayerIndex(s, id))

\* removeChatLayer whose cascade filters on the position instead of the id
removeChatLayer_WrongCascade(s, id) ==
  IF Len(s.chatLayers) <= 1 THEN s
  ELSE IF LayerIndex(s, id) = 0 THEN s
  ELSE SelectAfterRemove(Spliced(s, LayerIndex(s, id), LayerIndex(s, id)), LayerIndex(s, id))

\* removeChatLayer that leaves the regions of the removed layer in the store
removeChatLayer_NoCascade(s, id) ==
  IF Len(s.chatLayers) <= 1 THEN s
  ELSE IF LayerIndex(s, id) = 0 THEN s
  ELSE SelectAfterRemove([s EXCEPT !.chatLayers = RemoveAt(@, LayerIndex(s, id))],
                         LayerIndex(s, id))

removeChatLayer(s, id) ==
  IF Len(s.chatLayers) <= 1 THEN s
  ELSE IF LayerIndex(s, id) = 0 THEN s
  ELSE SelectAfterRemove(Spliced(s, id, LayerIndex(s, id)), LayerIndex(s, id))

\* the move that takes the first layer up to the end and the last one down
\* to the front
moveChatLayer_Wrap(s, id, direction) ==
  LET index == LayerIndex(s, id)
      swapWith == IF direction = "up"
                    THEN (IF index = 1 THEN Len(s.chatLayers) ELSE index - 1)
                    ELSE (IF index = Len(s.chatLayers) THEN 1 ELSE index + 1)
  IN  IF index = 0 THEN s
      ELSE [s EXCEPT !.chatLayers = [@ EXCEPT ![index] = s.chatLayers[swapWith],
                                              ![swapWith] = s.chatLayers[index]]]

moveChatLayer(s, id, direction) ==
  LET index == LayerIndex(s, id)
      swapWith == IF direction = "up" THEN index - 1 ELSE index + 1
  IN  IF index = 0 THEN s
      ELSE IF swapWith < 1 \/ swapWith > Len(s.chatLayers) THEN s
      ELSE [s EXCEPT !.chatLayers = [@ EXCEPT ![index] = s.chatLayers[swapWith],
                                              ![swapWith] = s.chatLayers[index]]]

clearChatlog(s) == SetParsedChatLines(SetChatlogText(s, <<>>), <<>>)

\* resetSession that keeps the censor regions
resetSession_KeepRegions(s) ==
  [SelectCreated(createChatLayer(
     [clearChatlog([s EXCEPT !.droppedImageSrc = Null, !.imageTransform = Transform0,
                             !.isImageDraggingEnabled = FALSE, !.isPanning = FALSE])
        EXCEPT !.chatLayers = <<>>],
     [name |-> LayerName(1)]))
   EXCEPT !.isChatDraggingEnabled = FALSE, !.isChatPanning = FALSE,
          !.selectedText = NoSelection]

resetSession(s) ==
  [SelectCreated(createChatLayer(
     [clearChatlog([s EXCEPT !.droppedImageSrc = Null, !.imageTransform = Transform0,
                             !.isImageDraggingEnabled = FALSE, !.isPanning = FALSE])
        EXCEPT !.chatLayers = <<>>],
     [name |-> LayerName(1)]))
   EXCEPT !.isChatDraggingEnabled = FALSE, !.isChatPanning = FALSE,
          !.censoredRegions = <<>>, !.selectedText = NoSelection]

----------------------------------------------------------------------------
(* CensorStore                                                             *)

\* the lookup comparing the start offset only
RegionIndex_StartOnly(regions, sel) ==
  LET same(r) == /\ r.layerId = sel.layerId
                 /\ r.lineIndex = sel.lineIndex
                 /\ r.startOffset = sel.startOffset
  IN  IF \E i \in 1..Len(regions) : same(regions[i])
        THEN CHOOSE i \in 1..Len(regions) :
               same(regions[i]) /\ \A j \in 1..(i - 1) : ~same(regions[j])
        ELSE 0

\* the lookup comparing the end offset with the selection's start
RegionIndex_Typo(regions, sel) ==
  LET same(r) == /\ r.layerId = sel.layerId
                 /\ r.lineIndex = sel.lineIndex
                 /\ r.startOffset = sel.startOffset
                 /\ r.endOffset = sel.startOffset
  IN  IF \E i \in 1..Len(regions) : same(regions[i])
        THEN CHOOSE i \in 1..Len(regions) :
               same(regions[i]) /\ \A j \in 1..(i - 1) : ~same(regions[j])
        ELSE 0

\* censoredRegions.findIndex(same layerId, lineIndex, startOffset, endOffset)
RegionIndex(regions, sel) ==
  LET same(r) == /\ r.layerId = sel.layerId
                 /\ r.lineIndex = sel.lineIndex
                 /\ r.startOffset = sel.startOffset
                 /\ r.endOffset = sel.endOffset
  IN  IF \E i \in 1..Len(regions) : same(regions[i])
        THEN CHOOSE i \in 1..Len(regions) :
               same(regions[i]) /\ \A j \in 1..(i - 1) : ~same(regions[j])
        ELSE 0

\* cycleCensorType without the two early returns
cycleCensorType_NoGuard(s) ==
  LET sel == s.selectedText
      existingIndex == RegionIndex(s.censoredRegions, sel)
  IN  IF existingIndex = 0
        THEN [s EXCEPT !.censoredRegions =
                Append(@, [lineIndex   |-> sel.lineIndex,
                           startOffset |-> sel.startOffset,
                           endOffset   |-> sel.endOffset,
                           type        |-> "invisible",
                           layerId     |-> sel.layerId])]
      ELSE IF s.censoredRegions[existingIndex].type = "invisible"
        THEN [s EXCEPT !.censoredRegions[existingIndex].type = "blackbar"]
      ELSE IF s.censoredRegions[existingIndex].type = "blackbar"
        THEN [s EXCEPT !.censoredRegions[existingIndex].type = "blur"]
      ELSE [s EXCEPT !.censoredRegions = RemoveAt(@, existingIndex)]

cycleCensorType(s) ==
  LET sel == s.selectedText
      existingIndex == RegionIndex(s.censoredRegions, sel)
  IN  IF sel.lineIndex = -1 THEN s
      ELSE IF sel.layerId = -1 THEN s
      ELSE IF existingIndex = 0
        THEN [s EXCEPT !.censoredRegions =
                Append(@, [lineIndex   |-> sel.lineIndex,
                           startOffset |-> sel.startOffset,
                           endOffset   |-> sel.endOffset,
                           type        |-> "invisible",
                           layerId     |-> sel.layerId])]
      ELSE IF s.censoredRegions[existingIndex].type = "invisible"
        THEN [s EXCEPT !.censoredRegions[existingIndex].type = "blackbar"]
      ELSE IF s.censoredRegions[existingIndex].type = "blackbar"
        THEN [s EXCEPT !.censoredRegions[existingIndex].type = "blur"]
      ELSE IF s.censoredRegions[existingIndex].type = "blur"
        THEN [s EXCEPT !.censoredRegions = RemoveAt(@, existingIndex)]
      ELSE s

\* Array.prototype.sort((a, b) => a.startOffset - b.startOffset): stable, so
\* regions with the same start keep their store order
RECURSIVE InsertByStart(_, _)
InsertByStart(sorted, r) ==
  IF sorted = <<>> THEN <<r>>
  ELSE IF r.startOffset < Head(sorted).startOffset THEN <<r>> \o sorted
  ELSE <<Head(sorted)>> \o InsertByStart(Tail(sorted), r)

RECURSIVE SortByStart(_)
SortByStart(regions) ==
  IF regions = <<>> THEN <<>>
  ELSE InsertByStart(SortByStart(SubSeq(regions, 1, Len(regions) - 1)), regions[Len(regions)])

\* the opening tag of a censored span, one token as the inline colour spans
CensorOpen(type) == "<span class=\"censored-" \o type \o "\">"
CensorTypes == {"invisible", "blackbar", "blur"}

\* the five replace() calls that escape the censored text
EscapeHtml(text) ==
  [i \in 1..Len(text) |->
     CASE text[i] = "&"  -> "&amp;"
       [] text[i] = "<"  -> "&lt;"
       [] text[i] = ">"  -> "&gt;"
       [] text[i] = "\"" -> "&quot;"
       [] text[i] = "'"  -> "&#039;"
       [] OTHER          -> text[i]]

\* the for loop of applyCensoring over the sorted regions, from region k on
RECURSIVE CensorLoop(_, _, _, _)
CensorLoop(text, regions, k, lastIndex) ==
  IF k > Len(regions) THEN SliceFrom(text, lastIndex)
  ELSE Slice(text, lastIndex, regions[k].startOffset)
         \o (IF regions[k].type \in CensorTypes
               THEN <<CensorOpen(regions[k].type)>>
                      \o EscapeHtml(Slice(text, regions[k].startOffset, regions[k].endOffset))
                      \o <<SpanClose>>
               ELSE <<>>)
         \o CensorLoop(text, regions, k + 1, regions[k].endOffset)

\* the regions of one line in the order applyCensoring takes them
LineRegions(s, lineIndex, layerId) ==
  SortByStart(SelectSeq(s.censoredRegions,
                        LAMBDA region : region.layerId = layerId /\ region.lineIndex = lineIndex))

\* applyCensoring; the positions are those of the string when text holds no
\* inline colour span (a span is one token here)
applyCensoring(s, text, lineIndex, layerId) ==
  IF Len(LineRegions(s, lineIndex, layerId)) = 0 THEN text
  ELSE CensorLoop(text, LineRegions(s, lineIndex, layerId), 1, 0)

\* String.prototype.trim()
RECURSIVE DropTrailingSpace(_)
DropTrailingSpace(s) ==
  IF s # <<>> /\ s[Len(s)] \in WhiteSpace \cup {"\n"}
    THEN DropTrailingSpace(SubSeq(s, 1, Len(s) - 1)) ELSE s

Trim(s) == DropTrailingSpace(DropLeadingSpace(s))

\* start (0-based) of line i (1-based) of the textarea value: the sum of
\* lines[j].length + 1 over the lines before it
RECURSIVE LineStart(_, _)
LineStart(lines, i) == IF i <= 1 THEN 0 ELSE LineStart(lines, i - 1) + Len(lines[i - 1]) + 1

\* the for loop of handleTextSelection: 1-based index of the first line
\* with currentPos <= selectionStart < currentPos + line.length + 1, 0 if none
LineOf(lines, selectionStart) ==
  FirstRule({i \in 1..Len(lines) :
               /\ selectionStart >= LineStart(lines, i)
               /\ selectionStart < LineStart(lines, i) + Len(lines[i]) + 1})

\* the assignments to selectedText for a selection that starts in line i
StoreSelection(s, lineStart, i, selectionStart, selectionEnd, text) ==
  [s EXCEPT !.selectedText =
     [lineIndex   |-> i - 1,
      startOffset |-> selectionStart - lineStart,
      endOffset   |-> selectionEnd - lineStart,
      text        |-> text,
      layerId     |-> IF activeChatLayer(s) # 0 THEN s.chatLayers[activeChatLayer(s)].id ELSE -1]]

LocateSelection(s, lines, i, selectionStart, selectionEnd, text) ==
  IF i = 0 THEN s
  ELSE StoreSelection(s, LineStart(lines, i), i, selectionStart, selectionEnd, text)

\* handleTextSelection over the textarea value fullText
SelectIn(s, fullText, selectionStart, selectionEnd, text) ==
  IF text = <<>>
    THEN ClearSelection(s)
    ELSE LocateSelection(s, SplitChar(fullText, "\n"),
                         LineOf(SplitChar(fullText, "\n"), selectionStart),
                         selectionStart, selectionEnd, text)

\* the v-model of the textarea: chatlogText of the active layer
chatlogText(s) == IF activeChatLayer(s) # 0 THEN s.chatLayers[activeChatLayer(s)].text ELSE <<>>

\* handleTextSelection with the textarea's selectionStart / selectionEnd;
\* window.getSelection() holds the selected characters of the textarea
handleTextSelection(s, selectionStart, selectionEnd) ==
  SelectIn(s, chatlogText(s), selectionStart, selectionEnd,
           Trim(Slice(chatlogText(s), selectionStart, selectionEnd)))

\* handleTextSelection from the @mouseup of an overlay line: window.getSelection()
\* holds the characters selected in the overlay, while selectionStart and
\* selectionEnd are still those of the textarea, where nothing need be selected
overlayTextSelected(s, selectionStart, selectionEnd, selected) ==
  SelectIn(s, chatlogText(s), selectionStart, selectionEnd, Trim(selected))

----------------------------------------------------------------------------
(* Persisted session snapshot                                              *)

\* the document that saveEditorState writes to the 'editorState' cookie;
\* JSON.stringify / JSON.parse keep these numbers, strings, booleans and
\* arrays as they are
saveEditorState(s) ==
  [characterName       |-> s.characterName,
   imageTransform      |-> s.imageTransform,
   isImageDraggingEnabled |-> s.isImageDraggingEnabled,
   isChatDraggingEnabled  |-> s.isChatDraggingEnabled,
   chatLayers          |-> [i \in 1..Len(s.chatLayers) |->
                              [id        |-> s.chatLayers[i].id,
                               name      |-> s.chatLayers[i].name,
                               text      |-> s.chatLayers[i].text,
                               transform |-> s.chatLayers[i].transform,
                               visible   |-> s.chatLayers[i].visible]],
   selectedChatLayerId |-> s.selectedChatLayerId,
   censoredRegions     |-> s.censoredRegions,
   selectedText        |-> s.selectedText,
   stripTimestamps     |-> s.stripTimestamps,
   chatLineWidth       |-> s.chatLineWidth]

\* Cookies.get('editorState'): <<>> when the cookie is not set, else <<document>>
NoCookie == <<>>

Max(a, b) == IF a >= b THEN a ELSE b

\* parseChatlog(restored); nextChatLayerId = Math.max(nextChatLayerId, restored.id + 1)
RestoreOne(s) ==
  [parseChatlog(s, Len(s.chatLayers)) EXCEPT !.nextChatLayerId = Max(@, Created(s).id + 1)]

\* the for loop of loadEditorState over state.chatLayers, from entry k on
RECURSIVE RestoreLayers(_, _, _)
RestoreLayers(s, saved, k) ==
  IF k > Len(saved) THEN s
  ELSE RestoreLayers(RestoreOne(createChatLayer(s, [id        |-> saved[k].id,
                                                    name      |-> saved[k].name,
                                                    text      |-> saved[k].text,
                                                    transform |-> saved[k].transform,
                                                    visible   |-> saved[k].visible])),
                     saved, k + 1)

\* the assignments of loadEditorState that precede the layers
RestoreRefs(s, state) ==
  [s EXCEPT !.characterName   = state.characterName,
            !.imageTransform  = state.imageTransform,
            !.isImageDraggingEnabled = state.isImageDraggingEnabled,
            !.isChatDraggingEnabled  = state.isChatDraggingEnabled,
            !.censoredRegions = state.censoredRegions,
            !.selectedText    = state.selectedText,
            !.stripTimestamps = state.stripTimestamps,
            !.chatLineWidth   = state.chatLineWidth,
            !.chatLayers      = <<>>]

\* const fallbackId = state.selectedChatLayerId ?? (chatLayers.value[0]?.id ?? null)
RestoreSelection(s, state) ==
  IF state.selectedChatLayerId # NullId THEN selectChatLayer(s, state.selectedChatLayerId)
  ELSE IF Len(s.chatLayers) > 0 THEN selectChatLayer(s, s.chatLayers[1].id)
  ELSE s

loadEditorState(s, savedState) ==
  IF savedState = NoCookie THEN s
  ELSE RestoreSelection(RestoreLayers(RestoreRefs(s, savedState[1]), savedState[1].chatLayers, 1),
                        savedState[1])

\* what the || defaults of loadEditorState read from a document that lacks
\* the field damage[1]
Defaulted(state, damage) ==
  IF damage[1] = "censoredRegions" THEN [state EXCEPT !.censoredRegions = <<>>]
  ELSE [state EXCEPT !.stripTimestamps = FALSE]

\* loadEditorState on the saved document with one field damaged.  A
\* censoredRegions that is not an array has no map(): the TypeError leaves
\* the try block after the assignments that precede it.  A null entry of
\* chatLayers throws at layer.id, after chatLayers.value = []
loadDamaged(s, state, damage) ==
  IF damage = <<"censoredRegions", "malformed">>
    THEN [s EXCEPT !.characterName = state.characterName,
                   !.imageTransform = state.imageTransform,
                   !.isImageDraggingEnabled = state.isImageDraggingEnabled,
                   !.isChatDraggingEnabled = state.isChatDraggingEnabled]
  ELSE IF damage = <<"chatLayers", "malformed">>
    THEN RestoreRefs(s, state)
  ELSE loadEditorState(s, <<Defaulted(state, damage)>>)

\* the refs as <script setup> creates them
Fresh(name, used) ==
  [chatLayers          |-> <<>>,
   selectedChatLayerId |-> NullId,
   nextChatLayerId     |-> 1,
   censoredRegions     |-> <<>>,
   selectedText        |-> NoSelection,
   stripTimestamps     |-> FALSE,
   characterName       |-> name,
   chatLineWidth       |-> DefaultChatLineWidth,
   droppedImageSrc     |-> Null,
   imageTransform      |-> Transform0,
   isImageDraggingEnabled |-> FALSE,
   isChatDraggingEnabled  |-> FALSE,
   isPanning           |-> FALSE,
   isChatPanning       |-> FALSE,
   usedIds             |-> used]

\* <script setup> up to "Bootstrap with a default layer"
Setup(name, used) == SelectCreated(createChatLayer(Fresh(name, used), [name |-> LayerName(1)]))

\* onMounted: loadCharacterName (the 'characterName' cookie follows the ref
\* through its watcher), then loadEditorState
onMounted(s, savedState) == loadEditorState(s, savedState)

\* the refs the saveEditorState watcher lists
Watched(s) == <<s.imageTransform, s.chatLayers, s.selectedChatLayerId, s.censoredRegions,
                s.selectedText, s.stripTimestamps, s.chatLineWidth,
                s.isImageDraggingEnabled, s.isChatDraggingEnabled>>


----------------------------------------------------------------------------
(* Raster export                                                           *)

\* ctx.measureText(text).width for the 12px bold face: the advance widths
\* add up; a space is narrower than a glyph
RECURSIVE measureText(_)
measureText(text) ==
  IF text = <<>> THEN 0
  ELSE (IF Head(text) = " " THEN 3 ELSE 7) + measureText(Tail(text))

Undefined == "undefined"

\* the paint operations recorded on the canvas; "at" is the index in the run
\* text of the first character the operation covers
PaintOp(kind, text, x, y, color, at) ==
  [kind |-> kind, text |-> text, x |-> x, y |-> y, color |-> color, at |-> at]

\* normal glyphs with the 8-direction outline, or the blurred copy when a
\* censor type is passed
drawTextWithOutline(text, x, y, color, censorType, at) ==
  IF censorType # Undefined
    THEN PaintOp("blur", text, x, y, color, at)
    ELSE PaintOp("glyphs", text, x, y, color, at)

getCensorType(s, lineIndex, startPos, length, layerId) ==
  LET hit(r) == /\ r.layerId = layerId
                /\ r.lineIndex = lineIndex
                /\ \/ (startPos >= r.startOffset /\ startPos < r.endOffset)
                   \/ (startPos + length > r.startOffset /\ startPos + length <= r.endOffset)
                   \/ (startPos <= r.startOffset /\ startPos + length >= r.endOffset)
      regions == s.censoredRegions
  IN  IF \E i \in 1..Len(regions) : hit(regions[i])
        THEN regions[CHOOSE i \in 1..Len(regions) :
                       hit(regions[i]) /\ \A j \in 1..(i - 1) : ~hit(regions[j])].type
        ELSE Undefined

\* the for loop over parts in drawSpecialLine
RECURSIVE DrawParts(_, _, _, _, _, _, _, _, _, _)
DrawParts(s, parts, k, currentX, partOffset, y, lineIndex, layerId, marker, colors) ==
  IF k > Len(parts) THEN <<>>
  ELSE LET part == parts[k]
           censorType == getCensorType(s, lineIndex, partOffset, Len(part), layerId)
       IN  <<drawTextWithOutline(part, currentX, y,
                                 IF part = marker THEN colors[1] ELSE colors[2],
                                 censorType, partOffset)>>
             \o DrawParts(s, parts, k + 1, currentX + measureText(part), partOffset + Len(part),
                          y, lineIndex, layerId, marker, colors)

\* drawSpecialLine: [special |-> the boolean it returns, ops |-> what it painted]
drawSpecialLine(s, text, x, y, lineIndex, layerId) ==
  IF Has(text, L_bang)
    THEN [special |-> TRUE,
          ops |-> DrawParts(s, SplitCapture(10, text), 1, x, 0, y, lineIndex, layerId,
                            L_bang, <<"rgb(255, 0, 195)", "rgb(255, 255, 255)">>)]
  ELSE IF Has(text, L_characterKill)
    THEN [special |-> TRUE,
          ops |-> DrawParts(s, SplitCapture(20, text), 1, x, 0, y, lineIndex, layerId,
                            L_characterKill, <<"rgb(56, 150, 243)", "rgb(240, 0, 0)">>)]
  ELSE [special |-> FALSE, ops |-> <<>>]

\* the while loop of drawTextSegment; consumed counts the characters of the
\* run already taken from remainingText.  An iteration that takes no
\* character repeats forever: it is recorded as a "hang" operation.
RECURSIVE ScanLoop(_, _, _, _, _, _, _, _, _)
ScanLoop(s, remainingText, currentX, currentOffset, consumed, yPos, color, lineIndex, layerId) ==
  IF Len(remainingText) = 0 THEN <<>>
  ELSE
    LET regions == s.censoredRegions
        hit(r) == /\ r.layerId = layerId
                  /\ r.lineIndex = lineIndex
                  /\ \/ (r.startOffset >= currentOffset
                           /\ r.startOffset < currentOffset + Len(remainingText))
                     \/ (r.endOffset > currentOffset
                           /\ r.endOffset <= currentOffset + Len(remainingText))
    IN
    IF \E i \in 1..Len(regions) : hit(regions[i])
      THEN
        LET nextCensor == regions[CHOOSE i \in 1..Len(regions) :
                                    hit(regions[i]) /\ \A j \in 1..(i - 1) : ~hit(regions[j])]
            uncensoredLength == nextCensor.startOffset - currentOffset
            uncensoredText == IF uncensoredLength > 0
                                THEN Slice(remainingText, 0, uncensoredLength) ELSE <<>>
            ops1 == IF uncensoredLength > 0
                      THEN <<drawTextWithOutline(uncensoredText, currentX, yPos, color,
                                                 Undefined, consumed)>>
                      ELSE <<>>
            x1 == currentX + measureText(uncensoredText)
            offset1 == IF uncensoredLength > 0 THEN currentOffset + uncensoredLength
                       ELSE currentOffset
            remaining1 == IF uncensoredLength > 0
                            THEN SliceFrom(remainingText, uncensoredLength) ELSE remainingText
            consumed1 == consumed + Len(uncensoredText)
            censoredLength == nextCensor.endOffset - offset1
            censoredText == IF censoredLength > 0
                              THEN Slice(remaining1, 0, censoredLength) ELSE <<>>
            ops2 == IF censoredLength <= 0 THEN <<>>
                    ELSE IF nextCensor.type = "blackbar"
                      THEN <<PaintOp("blackbar", censoredText, x1 - 2, yPos, "#000000", consumed1)>>
                    ELSE IF nextCensor.type = "blur"
                      THEN <<drawTextWithOutline(censoredText, x1, yPos, color,
                                                 nextCensor.type, consumed1)>>
                    ELSE <<>>
            x2 == IF censoredLength <= 0 THEN x1
                  ELSE x1 + (IF nextCensor.type = "invisible" THEN measureText(censoredText) ELSE 0)
                          + measureText(censoredText)
            offset2 == IF censoredLength > 0 THEN offset1 + censoredLength ELSE offset1
            remaining2 == IF censoredLength > 0
                            THEN SliceFrom(remaining1, censoredLength) ELSE remaining1
            consumed2 == consumed1 + Len(censoredText)
        IN  IF uncensoredLength <= 0 /\ censoredLength <= 0
              THEN <<PaintOp("hang", <<>>, currentX, yPos, color, consumed)>>
              ELSE ops1 \o ops2
                     \o ScanLoop(s, remaining2, x2, offset2, consumed2, yPos, color,
                                 lineIndex, layerId)
      ELSE <<drawTextWithOutline(remainingText, currentX, yPos, color, Undefined, consumed)>>

drawTextSegment(s, text, xPos, yPos, color, lineStartPos, lineIndex, layerId) ==
  ScanLoop(s, text, xPos, lineStartPos, 0, yPos, color, lineIndex, layerId)


\* the greedy word-wrap loop of saveImage from word k on.  A run is
\* [text, start, src]: start is the lineStartPosition handed to the drawing
\* functions, src is the index in the line's plain text where the run's
\* first character really stands (kept for checking only).
RECURSIVE WrapLoop(_, _, _, _, _, _)
WrapLoop(words, k, currentLineText, lineStartPosition, src, maxTextWidth) ==
  IF k > Len(words)
    THEN IF currentLineText # <<>>
           THEN <<[text |-> currentLineText, start |-> lineStartPosition, src |-> src]>>
           ELSE <<>>
    ELSE LET word == words[k]
             testLine == IF currentLineText # <<>>
                           THEN currentLineText \o <<" ">> \o word ELSE word
         IN  IF measureText(testLine) > maxTextWidth /\ currentLineText # <<>>
               THEN <<[text |-> currentLineText, start |-> lineStartPosition, src |-> src]>>
                      \o WrapLoop(words, k + 1, word,
                                  lineStartPosition + Len(currentLineText) + 1,
                                  LineStart(words, k), maxTextWidth)
               ELSE WrapLoop(words, k + 1, testLine, lineStartPosition,
                             IF currentLineText # <<>> THEN src ELSE LineStart(words, k),
                             maxTextWidth)

\* the runs saveImage emits for one line
LineRuns(rawText, maxTextWidth) ==
  IF measureText(rawText) <= maxTextWidth
    THEN <<[text |-> rawText, start |-> 0, src |-> 0]>>
    ELSE WrapLoop(SplitChar(rawText, " "), 1, <<>>, 0, 0, maxTextWidth)

\* the runs of one line, each with its layer and line
TagRuns(runs, layer, lineIndex, color, wrapped) ==
  [i \in 1..Len(runs) |->
     [layerId   |-> layer.id,
      lineIndex |-> lineIndex,
      color     |-> color,
      wrapped   |-> wrapped,
      text      |-> runs[i].text,
      start     |-> runs[i].start,
      src       |-> runs[i].src]]

\* const rawText = stripHtml(line.text), then the wrap decision
RunsOfLine(layer, lineIndex, color, rawText, maxTextWidth) ==
  TagRuns(LineRuns(rawText, maxTextWidth), layer, lineIndex, color,
          measureText(rawText) > maxTextWidth)

\* all runs of a layer in drawing order, each with its line
RECURSIVE LayerRuns(_, _, _)
LayerRuns(layer, lineIndex, maxTextWidth) ==
  IF lineIndex >= Len(layer.parsedLines) THEN <<>>
  ELSE RunsOfLine(layer, lineIndex, layer.parsedLines[lineIndex + 1].color,
                  stripHtml(layer.parsedLines[lineIndex + 1].text), maxTextWidth)
         \o LayerRuns(layer, lineIndex + 1, maxTextWidth)

\* the paint operations of a run, each with the run's layer and line and the
\* offset in the line's plain text of the first character it covers
StampOps(ops, layer, run) ==
  [i \in 1..Len(ops) |->
     [kind |-> ops[i].kind, text |-> ops[i].text, x |-> ops[i].x, y |-> ops[i].y,
      color |-> ops[i].color, layerId |-> run.layerId, lineIndex |-> run.lineIndex,
      src |-> run.src + ops[i].at, transform |-> layer.transform]]

\* if (!drawSpecialLine(...)) drawTextSegment(...)
RunOps(s, run, currentY, special) ==
  IF special.special THEN special.ops
  ELSE drawTextSegment(s, run.text, 4, currentY, run.color, run.start,
                       run.lineIndex, run.layerId)

\* what one run paints: drawSpecialLine, else drawTextSegment
DrawRun(s, layer, run, currentY) ==
  StampOps(RunOps(s, run, currentY,
                  drawSpecialLine(s, run.text, 4, currentY, run.lineIndex, run.layerId)),
           layer, run)

\* the runs of a layer painted top to bottom, 16px apart
DrawRuns(s, layer, runs) ==
  Concat([k \in 1..Len(runs) |-> DrawRun(s, layer, runs[k], 16 * (k - 1))])

LayerOps(s, layer) == DrawRuns(s, layer, LayerRuns(layer, 0, s.chatLineWidth))

\* the layers in store order: the runs emitted and the paint operations
RenderVisible(s, visibleChatLayers) ==
  [runs |-> Concat([i \in 1..Len(visibleChatLayers) |->
                      LayerRuns(visibleChatLayers[i], 0, s.chatLineWidth)]),
   ops  |-> Concat([i \in 1..Len(visibleChatLayers) |-> LayerOps(s, visibleChatLayers[i])])]

\* the canvas after a saveImage that paints every layer of the store
RenderLayers_All(s) == RenderVisible(s, s.chatLayers)

\* the canvas after saveImage, for the layers that are visible and have lines
RenderLayers(s) ==
  RenderVisible(s, SelectSeq(s.chatLayers,
                             LAMBDA layer : layer.visible /\ Len(layer.parsedLines) > 0))

\* the canvas is local to saveImage: no other handler leaves one
BlankCanvas == [runs |-> <<>>, ops |-> <<>>]


----------------------------------------------------------------------------
(* Remaining handlers                                                      *)

\* handleChatFileSelect for a text file: chatlogText.value = text; parseChatlog()
handleChatFileSelect(s, text) ==
  LET s1 == SetChatlogText(s, text) IN parseChatlog(s1, activeChatLayer(s1))

\* String.prototype.startsWith / endsWith
StartsWith(s, lit) == MatchAt(s, lit, 1)
EndsWith(s, lit) == MatchAt(s, lit, Len(s) - Len(lit) + 1)

\* the alternatives of /\.(png|jpe?g|webp|gif|bmp|tiff)$/i
ImageExtensions ==
  {<<".","p","n","g">>, <<".","j","p","g">>, <<".","j","p","e","g">>, <<".","w","e","b","p">>,
   <<".","g","i","f">>, <<".","b","m","p">>, <<".","t","i","f","f">>}

isImageFile(file) ==
  \/ file.type # <<>> /\ StartsWith(file.type, L_imageSlash)
  \/ \E ext \in ImageExtensions : EndsWith(LowerSeq(file.name), ext)

\* reader.onload of handleFileSelect and of handleDrop
ImageRead(s) == [s EXCEPT !.droppedImageSrc = "image", !.imageTransform = Transform0]

\* handleFileSelect with the FileList of the image input
handleFileSelect(s, files) ==
  IF Len(files) > 0
    THEN IF StartsWith(files[1].type, L_imageSlash) THEN ImageRead(s) ELSE s
    ELSE s

\* handleDrop that reads whatever file is dropped
handleDrop_NoCheck(s, files) ==
  IF Len(files) = 0 THEN s
  ELSE ImageRead(s)

\* handleDrop with the files of the drop's dataTransfer
handleDrop(s, files) ==
  IF Len(files) = 0 THEN s
  ELSE IF ~isImageFile(files[1]) THEN s
  ELSE ImageRead(s)

\* handleChatFileSelect with the FileList of the chat input; text is what
\* file.text() resolves to
chatFileSelected(s, files, text) ==
  IF Len(files) > 0
    THEN IF files[1].type = L_textPlain \/ EndsWith(files[1].name, L_dotTxt)
           THEN handleChatFileSelect(s, text)
           ELSE s
    ELSE s

handleImageMouseDown(s) ==
  IF ~s.isImageDraggingEnabled \/ s.droppedImageSrc = Null THEN s
  ELSE [s EXCEPT !.isPanning = TRUE]

\* handleImageMouseMove: imageTransform.x = panStartImagePos.x + deltaX
handleImageMouseMove(s, deltaX) ==
  IF ~s.isPanning THEN s ELSE [s EXCEPT !.imageTransform.x = @ + deltaX]

handleImageMouseUpOrLeave(s) == IF s.isPanning THEN [s EXCEPT !.isPanning = FALSE] ELSE s

\* toggleChatDrag that leaves the image mode as it is
toggleChatDrag_NoExclusion(s) == [s EXCEPT !.isChatDraggingEnabled = ~@]

toggleImageDrag(s) ==
  [s EXCEPT !.isImageDraggingEnabled = ~@,
            !.isChatDraggingEnabled = IF ~s.isImageDraggingEnabled /\ @ THEN FALSE ELSE @]

toggleChatDrag(s) ==
  [s EXCEPT !.isChatDraggingEnabled = ~@,
            !.isImageDraggingEnabled = IF ~s.isChatDraggingEnabled /\ @ THEN FALSE ELSE @]

\* parsedChatLines.value.length === 0
NoActiveLines(s) ==
  activeChatLayer(s) = 0 \/ Len(s.chatLayers[activeChatLayer(s)].parsedLines) = 0

handleChatMouseDown(s) ==
  IF ~s.isChatDraggingEnabled \/ NoActiveLines(s) THEN s
  ELSE IF s.isImageDraggingEnabled /\ s.isPanning THEN s
  ELSE [s EXCEPT !.isChatPanning = TRUE]

\* handleChatMouseMove: chatTransform.x = chatPanStartPos.x + deltaX, which
\* the watcher of chatTransform assigns to the transform of the active layer
handleChatMouseMove(s, deltaX) ==
  IF ~s.isChatPanning \/ activeChatLayer(s) = 0 THEN s
  ELSE [s EXCEPT !.chatLayers[activeChatLayer(s)].transform.x = @ + deltaX]

handleChatMouseUpOrLeave(s) ==
  IF s.isChatPanning THEN [s EXCEPT !.isChatPanning = FALSE] ELSE s

\* document.addEventListener of handleResizeMouseDown: a listener that is
\* registered already is not registered again
ResizeListeners == {<<"mousemove", "handleResizeMouseMove">>, <<"mouseup", "handleResizeMouseUp">>}

\* reader.onload with the data URL that the read has produced
readerOnload(s, result) == [s EXCEPT !.droppedImageSrc = result, !.imageTransform = Transform0]

\* parseChatlog bound in the template as a method handler (@click, @change,
\* @input, @keyup.ctrl.enter): it receives the DOM event as "layer", the
\* event has no text, so only parsedChatLines.value = [] reaches the store
parseChatlogEvent(s) == SetParsedChatLines(s, <<>>)

\* Number.prototype.toString() of a natural number
DigitOf(n) == <<"0","1","2","3","4","5","6","7","8","9">>[n + 1]

RECURSIVE NumberToString(_)
NumberToString(n) ==
  IF n < 10 THEN <<DigitOf(n)>> ELSE NumberToString(n \div 10) \o <<DigitOf(n % 10)>>

\* String.prototype.padStart(2, '0')
pad(value) ==
  IF Len(NumberToString(value)) < 2 THEN <<"0">> \o NumberToString(value)
  ELSE NumberToString(value)

\* String.prototype.replace(/\s+/g, '-')
RECURSIVE HyphenateSpace(_)
HyphenateSpace(s) ==
  IF s = <<>> THEN <<>>
  ELSE IF Head(s) \in WhiteSpace \cup {"\n"} THEN <<"-">> \o HyphenateSpace(DropLeadingSpace(s))
  ELSE <<Head(s)>> \o HyphenateSpace(Tail(s))

\* String.prototype.replace(/[^a-zA-Z0-9\s_-]/g, '')
SafeChars(s) ==
  SelectSeq(s, LAMBDA c : IsWordChar(c) \/ c = "-" \/ c \in WhiteSpace \cup {"\n"})

L_screenshot == <<"s","c","r","e","e","n","s","h","o","t">>
L_png == <<".","p","n","g">>
L_sep == <<" ","-"," ">>

\* `${datePart} - ${timePart} - ${finalTheme}.png`
FilenameOf(datePart, timePart, safeTheme) ==
  datePart \o L_sep \o timePart \o L_sep
    \o (IF safeTheme # <<>> THEN safeTheme ELSE L_screenshot) \o L_png

\* the filename built with getMonth() as the month number
buildScreenshotFilename_MonthIndex(theme, now) ==
  FilenameOf(pad(now.date) \o pad(now.month) \o NumberToString(now.fullYear),
             pad(now.hours) \o pad(now.minutes),
             HyphenateSpace(Trim(SafeChars(Trim(theme)))))

\* buildScreenshotFilename for screenshotTheme.value = theme and new Date() =
\* now, a record of what getDate, getMonth, getFullYear, getHours and
\* getMinutes return
buildScreenshotFilename(theme, now) ==
  FilenameOf(pad(now.date) \o pad(now.month + 1) \o NumberToString(now.fullYear),
             pad(now.hours) \o pad(now.minutes),
             HyphenateSpace(Trim(SafeChars(Trim(theme)))))

\* a.click() on the object URL: the automatic download
downloadBlob(e) == [e EXCEPT !.pc = "done", !.delivered = Append(@, "download")]

\* saveBlob up to its await: prompt is alwaysPromptSaveLocation.value &&
\* filePickerSupported.value
saveBlob(e, prompt) ==
  IF prompt THEN [e EXCEPT !.pc = "dialog", !.dialog = "open"]
  ELSE downloadBlob(e)

\* saveBlob without the return that follows the dialog save
pickerSettled_NoReturn(e, resolved) ==
  downloadBlob(IF resolved
                 THEN [e EXCEPT !.dialog = "saved", !.delivered = Append(@, "dialog")]
                 ELSE [e EXCEPT !.dialog = "failed"])

\* saveBlob after saveBlobWithFilePicker has settled: return when it
\* resolved, downloadBlob from the catch when it rejected
pickerSettled(e, resolved) ==
  IF resolved
    THEN [e EXCEPT !.pc = "done", !.dialog = "saved", !.delivered = Append(@, "dialog")]
    ELSE downloadBlob([e EXCEPT !.dialog = "failed"])

\* the catch of saveImage
Failed(e, cause) == [e EXCEPT !.pc = "failed", !.cause = cause]

\* saveImage up to await new Promise(img.onload / img.onerror)
beginExport(ctx) ==
  IF ctx = Null
    THEN Failed([pc |-> "start", cause |-> "", blob |-> FALSE, dialog |-> "none", delivered |-> <<>>],
                "context")
    ELSE [pc |-> "decoding", cause |-> "", blob |-> FALSE, dialog |-> "none", delivered |-> <<>>]

\* saveImage from the image promise to await canvas.toBlob
imageSettled(e, loaded) == IF loaded THEN [e EXCEPT !.pc = "encoding"] ELSE Failed(e, "decode")

\* saveImage from the blob promise on, without the test of the blob
blobSettled_NoCheck(e, blob, prompt) == saveBlob([e EXCEPT !.blob = blob # Null], prompt)

\* saveImage from the blob promise on: if (!blob) throw, await saveBlob
blobSettled(e, blob, prompt) ==
  IF blob = Null THEN Failed(e, "blob") ELSE saveBlob([e EXCEPT !.blob = TRUE], prompt)

\* saveImage: nothing happens without a background image
saveImage(s, painted) == IF s.droppedImageSrc = Null THEN painted ELSE RenderLayers(s)

----------------------------------------------------------------------------
(* Actions                                                                 *)

\* the refs after a handler has taken them to s
Assign(s, name, arg) ==
  /\ chatLayers' = s.chatLayers
  /\ selectedChatLayerId' = s.selectedChatLayerId
  /\ nextChatLayerId' = s.nextChatLayerId
  /\ censoredRegions' = s.censoredRegions
  /\ selectedText' = s.selectedText
  /\ stripTimestamps' = s.stripTimestamps
  /\ characterName' = s.characterName
  /\ chatLineWidth' = s.chatLineWidth
  /\ droppedImageSrc' = s.droppedImageSrc
  /\ imageTransform' = s.imageTransform
  /\ isImageDraggingEnabled' = s.isImageDraggingEnabled
  /\ isChatDraggingEnabled' = s.isChatDraggingEnabled
  /\ isPanning' = s.isPanning
  /\ isChatPanning' = s.isChatPanning
  /\ usedIds' = s.usedIds
  /\ op' = [name |-> name, arg |-> arg,
            pre |-> [layers |-> Len(chatLayers), regions |-> Len(censoredRegions)]]
  /\ UNCHANGED <<alwaysPromptSaveLocation, filePickerSupported, screenshotTheme, exports>>

\* a handler that starts no file read and leaves the resize of the panel alone
Refs(s, name, arg) ==
  /\ Assign(s, name, arg)
  /\ UNCHANGED <<isResizingChatPanel, listeners, readers>>

\* the deep watcher runs saveEditorState when a watched ref has changed
Commit(base, s, name, arg) ==
  /\ Refs(s, name, arg)
  /\ cookie' = IF Watched(s) = Watched(base) THEN cookie ELSE <<saveEditorState(s)>>

\* the page as first loaded: the refs of s, no cookie, nothing exported
Start(s) ==
  /\ chatLayers = s.chatLayers
  /\ selectedChatLayerId = s.selectedChatLayerId
  /\ nextChatLayerId = s.nextChatLayerId
  /\ censoredRegions = s.censoredRegions
  /\ selectedText = s.selectedText
  /\ stripTimestamps = s.stripTimestamps
  /\ characterName = s.characterName
  /\ chatLineWidth = s.chatLineWidth
  /\ droppedImageSrc = s.droppedImageSrc
  /\ imageTransform = s.imageTransform
  /\ isImageDraggingEnabled = s.isImageDraggingEnabled
  /\ isChatDraggingEnabled = s.isChatDraggingEnabled
  /\ isPanning = s.isPanning
  /\ isChatPanning = s.isChatPanning
  /\ isResizingChatPanel = FALSE
  /\ listeners = {}
  /\ readers = <<>>
  /\ usedIds = s.usedIds
  /\ cookie = NoCookie
  /\ canvas = BlankCanvas
  /\ op = [name |-> "setup", arg |-> <<>>, pre |-> [layers |-> 0, regions |-> 0]]
  /\ alwaysPromptSaveLocation = FALSE
  /\ screenshotTheme = <<>>
  /\ exports = <<>>

\* a browser that has the save dialog
Init == Start(onMounted(Setup(<<>>, {}), NoCookie)) /\ filePickerSupported = TRUE

AddLayer ==
  /\ Len(chatLayers) < MaxLayers
  /\ nextChatLayerId <= MaxLayerId
  /\ Commit(Cur, addChatLayer(Cur), "addChatLayer", <<>>)
  /\ canvas' = BlankCanvas

RemoveLayer(id) ==
  /\ Commit(Cur, removeChatLayer(Cur, id), "removeChatLayer", <<id>>)
  /\ canvas' = BlankCanvas

MoveLayer(id, direction) ==
  /\ Commit(Cur, moveChatLayer(Cur, id, direction), "moveChatLayer", <<id, direction>>)
  /\ canvas' = BlankCanvas

SelectLayer(id) ==
  /\ Commit(Cur, selectChatLayer(Cur, id), "selectChatLayer", <<id>>)
  /\ canvas' = BlankCanvas

ResetSession ==
  /\ nextChatLayerId <= MaxLayerId
  /\ Commit(Cur, resetSession(Cur), "resetSession", <<>>)
  /\ canvas' = BlankCanvas

\* the page once onMounted has taken the refs to s; saved tells whether
\* loadEditorState has assigned a watched ref (censoredRegions.value and
\* chatLayers.value get new arrays, which triggers the deep watcher whatever
\* they hold)
Mounted(s, arg, saved) ==
  /\ Assign(s, "onMounted", arg)
  /\ isResizingChatPanel' = FALSE
  /\ listeners' = {}
  /\ readers' = <<>>
  /\ cookie' = IF saved THEN <<saveEditorState(s)>> ELSE cookie

\* page load: <script setup> runs again, then onMounted restores the cookie
Reload ==
  /\ Mounted(onMounted(Setup(characterName, usedIds), cookie), <<>>, cookie # NoCookie)
  /\ canvas' = BlankCanvas

ImportChatFile(text) ==
  /\ Commit(Cur, handleChatFileSelect(Cur, text), "handleChatFileSelect", <<>>)
  /\ canvas' = BlankCanvas

ClearChatlog ==
  /\ Commit(Cur, clearChatlog(Cur), "clearChatlog", <<>>)
  /\ canvas' = BlankCanvas

\* a selection range of the textarea lies within its value
Clamp(n) == IF n <= Len(chatlogText(Cur)) THEN n ELSE Len(chatlogText(Cur))

SelectText(selectionStart, selectionEnd) ==
  /\ Commit(Cur, handleTextSelection(Cur, Clamp(selectionStart), Clamp(selectionEnd)),
            "handleTextSelection", <<Clamp(selectionStart), Clamp(selectionEnd)>>)
  /\ canvas' = BlankCanvas

CycleCensor ==
  /\ \/ Len(censoredRegions) < MaxRegions
     \/ RegionIndex(censoredRegions, selectedText) # 0
     \/ selectedText.lineIndex = -1
     \/ selectedText.layerId = -1
  /\ Commit(Cur, cycleCensorType(Cur), "cycleCensorType", <<>>)
  /\ canvas' = BlankCanvas

\* the layer store together with the censor regions of its layers
Next ==
  \/ AddLayer
  \/ \E id \in 1..MaxLayerId : RemoveLayer(id)
  \/ \E id \in 1..MaxLayerId : SelectLayer(id)
  \/ ResetSession
  \/ Reload
  \/ \E text \in StoreTexts : ImportChatFile(text)
  \/ \E r \in StoreRanges : SelectText(r[1], r[2])
  \/ CycleCensor

Spec == Init /\ [][Next]_vars

\* every operation on the layer list, across page loads
NextLayers ==
  \/ AddLayer
  \/ \E id \in 1..MaxLayerId : RemoveLayer(id)
  \/ \E id \in 1..MaxLayerId : \E direction \in {"up", "down"} : MoveLayer(id, direction)
  \/ \E id \in 1..MaxLayerId : SelectLayer(id)
  \/ ResetSession
  \/ Reload
  \/ \E text \in StoreTexts : ImportChatFile(text)
  \/ ClearChatlog

SpecLayers == Init /\ [][NextLayers]_vars

\* reordering layers that hold text, a selection and censor regions
NextMove ==
  \/ AddLayer
  \/ \E id \in 1..MaxLayerId : \E direction \in {"up", "down"} : MoveLayer(id, direction)
  \/ \E id \in 1..MaxLayerId : SelectLayer(id)
  \/ \E text \in StoreTexts : ImportChatFile(text)
  \/ \E r \in StoreRanges : SelectText(r[1], r[2])
  \/ CycleCensor

SpecMove == Init /\ [][NextMove]_vars

\* the censor store over the lines of one layer, across page loads
NextCensor ==
  \/ \E text \in CensorTexts : ImportChatFile(text)
  \/ ClearChatlog
  \/ \E r \in CensorRanges : SelectText(r[1], r[2])
  \/ CycleCensor
  \/ Reload

SpecCensor == Init /\ [][NextCensor]_vars

\* reader.onload of handleFileSelect / handleDrop
UploadImage ==
  /\ Commit(Cur, ImageRead(Cur), "reader.onload", <<>>)
  /\ canvas' = BlankCanvas

\* the v-model.number of the chat line width field
SetChatLineWidth(w) ==
  /\ Commit(Cur, [Cur EXCEPT !.chatLineWidth = w], "chatLineWidth", <<w>>)
  /\ canvas' = BlankCanvas

SaveImage ==
  /\ Commit(Cur, Cur, "saveImage", <<>>)
  /\ canvas' = saveImage(Cur, canvas)

\* export of one layer with censored regions
NextExport ==
  \/ \E text \in ExportTexts : ImportChatFile(text)
  \/ \E r \in ExportRanges : SelectText(r[1], r[2])
  \/ CycleCensor
  \/ UploadImage
  \/ \E w \in ExportWidths : SetChatLineWidth(w)
  \/ SaveImage

SpecExport == Init /\ [][NextExport]_vars

\* the v-model of the character name field, then its @input="parseChatlog"
SetCharacterName(name) ==
  /\ Commit(Cur, parseChatlogEvent([Cur EXCEPT !.characterName = name]),
            "characterName", <<name>>)
  /\ canvas' = BlankCanvas

\* the v-model of the strip-timestamps switch, then its @change="parseChatlog"
SetStripTimestamps(strip) ==
  /\ Commit(Cur, parseChatlogEvent([Cur EXCEPT !.stripTimestamps = strip]),
            "stripTimestamps", <<strip>>)
  /\ canvas' = BlankCanvas

\* classification of imported lines under the player's name
NextClassify ==
  \/ \E text \in ClassifyTexts \cup StampTexts \cup LineTexts \cup FallbackTexts :
       ImportChatFile(text)
  \/ \E name \in ClassifyNames : SetCharacterName(name)
  \/ \E strip \in BOOLEAN : SetStripTimestamps(strip)
  \/ Reload

SpecClassify == Init /\ [][NextClassify]_vars

\* the eye button of a layer row: layer.visible = !layer.visible
ToggleVisible(id) ==
  /\ LayerIndex(Cur, id) # 0
  /\ Commit(Cur, [Cur EXCEPT !.chatLayers[LayerIndex(Cur, id)].visible = ~@],
            "toggleVisible", <<id>>)
  /\ canvas' = BlankCanvas

\* what the asynchronous steps of an export leave alone
ExportFrame ==
  UNCHANGED <<chatLayers, selectedChatLayerId, nextChatLayerId, censoredRegions,
              selectedText, stripTimestamps, characterName, chatLineWidth,
              droppedImageSrc, imageTransform, cookie, usedIds, filePickerSupported,
              screenshotTheme, isImageDraggingEnabled, isChatDraggingEnabled, isPanning,
              isChatPanning, isResizingChatPanel, listeners, readers>>

ExportOp(name, arg) ==
  op' = [name |-> name, arg |-> arg,
         pre |-> [layers |-> Len(chatLayers), regions |-> Len(censoredRegions)]]

\* the switch "Ask where to save each time", disabled without the dialog
SetAlwaysPrompt(prompt) ==
  /\ filePickerSupported
  /\ alwaysPromptSaveLocation' = prompt
  /\ ExportOp("alwaysPromptSaveLocation", <<prompt>>)
  /\ canvas' = BlankCanvas
  /\ ExportFrame /\ UNCHANGED exports

\* a click on Save Image, enabled whenever an image is loaded; ctx is what
\* canvas.getContext('2d') returns
StartExport(ctx) ==
  /\ droppedImageSrc # Null
  /\ Len(exports) < MaxExports
  /\ exports' = Append(exports, beginExport(ctx))
  /\ ExportOp("saveImage:start", <<Len(exports) + 1, ctx>>)
  /\ canvas' = BlankCanvas
  /\ ExportFrame /\ UNCHANGED alwaysPromptSaveLocation

\* img.onload or img.onerror of export e; the layers are painted after onload
ImageSettled(e, loaded) ==
  /\ e <= Len(exports)
  /\ exports[e].pc = "decoding"
  /\ exports' = [exports EXCEPT ![e] = imageSettled(@, loaded)]
  /\ ExportOp("saveImage:image", <<e, loaded>>)
  /\ canvas' = IF loaded THEN saveImage(Cur, canvas) ELSE BlankCanvas
  /\ ExportFrame /\ UNCHANGED alwaysPromptSaveLocation

\* the callback of canvas.toBlob of export e, with the blob or with null
BlobSettled(e, blob) ==
  /\ e <= Len(exports)
  /\ exports[e].pc = "encoding"
  /\ exports' = [exports EXCEPT
                   ![e] = blobSettled(@, blob, alwaysPromptSaveLocation /\ filePickerSupported)]
  /\ ExportOp("saveImage:blob", <<e, blob>>)
  /\ canvas' = BlankCanvas
  /\ ExportFrame /\ UNCHANGED alwaysPromptSaveLocation

\* the save dialog of export e has written the file, or was dismissed or failed
PickerSettled(e, resolved) ==
  /\ e <= Len(exports)
  /\ exports[e].pc = "dialog"
  /\ exports' = [exports EXCEPT ![e] = pickerSettled(@, resolved)]
  /\ ExportOp("saveBlob:picker", <<e, resolved>>)
  /\ canvas' = BlankCanvas
  /\ ExportFrame /\ UNCHANGED alwaysPromptSaveLocation

\* exports as asynchronous calls, in a browser with or without the save dialog
InitSave == Start(onMounted(Setup(<<>>, {}), NoCookie)) /\ filePickerSupported \in BOOLEAN

NextSave ==
  \/ UploadImage
  \/ \E prompt \in BOOLEAN : SetAlwaysPrompt(prompt)
  \/ \E ctx \in {"context", Null} : StartExport(ctx)
  \/ \E e \in 1..MaxExports : \E loaded \in BOOLEAN : ImageSettled(e, loaded)
  \/ \E e \in 1..MaxExports : \E blob \in {"blob", Null} : BlobSettled(e, blob)
  \/ \E e \in 1..MaxExports : \E resolved \in BOOLEAN : PickerSettled(e, resolved)

SpecSave == InitSave /\ [][NextSave]_vars

\* @change of the image input
SelectImageFile(files) ==
  /\ Commit(Cur, handleFileSelect(Cur, files), "handleFileSelect", <<files>>)
  /\ canvas' = BlankCanvas

\* @drop of the drop zone
DropFile(files) ==
  /\ Commit(Cur, handleDrop(Cur, files), "handleDrop", <<files>>)
  /\ canvas' = BlankCanvas

\* @change of the chat input
SelectChatFile(files, text) ==
  /\ Commit(Cur, chatFileSelected(Cur, files, text), "chatFileSelected", <<files>>)
  /\ canvas' = BlankCanvas

\* the toolbar button of the image drag/zoom mode; arg keeps what the chat
\* mode was
ToggleImageDrag ==
  /\ Commit(Cur, toggleImageDrag(Cur), "toggleImageDrag", <<isChatDraggingEnabled>>)
  /\ canvas' = BlankCanvas

\* the image dragged with the image-drag switch on: mouse down, move and up
PanImage(deltaX) ==
  /\ droppedImageSrc # Null
  /\ isImageDraggingEnabled
  /\ imageTransform.x + deltaX \in (0 - MaxPan)..MaxPan
  /\ Commit(Cur, handleImageMouseUpOrLeave(
                    handleImageMouseMove(handleImageMouseDown(Cur), deltaX)),
            "handleImageMouseMove", <<deltaX>>)
  /\ canvas' = BlankCanvas

\* files of every kind given to the image input, the drop zone and the chat input
NextFiles ==
  \/ \E files \in FileLists : SelectImageFile(files)
  \/ \E files \in FileLists : DropFile(files)
  \/ \E files \in FileLists : \E text \in StoreTexts \cup CensorTexts : SelectChatFile(files, text)
  \/ ToggleImageDrag
  \/ \E deltaX \in PanDeltas : PanImage(deltaX)
  \/ AddLayer
  \/ ResetSession

SpecFiles == Init /\ [][NextFiles]_vars

\* the fields of the saved document that a page load finds damaged
Damages == {<<"censoredRegions", "absent">>, <<"censoredRegions", "malformed">>,
            <<"stripTimestamps", "absent">>, <<"chatLayers", "malformed">>}

\* page load with the saved document damaged in one field
ReloadDamaged(damage) ==
  /\ cookie # NoCookie
  /\ Mounted(loadDamaged(Setup(characterName, usedIds), cookie[1], damage), damage,
             damage # <<"censoredRegions", "malformed">>)
  /\ canvas' = BlankCanvas

\* sessions saved and loaded again, the saved document intact or damaged
NextRestore ==
  \/ AddLayer
  \/ \E text \in StoreTexts : ImportChatFile(text)
  \/ \E r \in StoreRanges : SelectText(r[1], r[2])
  \/ CycleCensor
  \/ \E strip \in BOOLEAN : SetStripTimestamps(strip)
  \/ \E id \in 1..MaxLayerId : ToggleVisible(id)
  \/ Reload
  \/ \E damage \in Damages : ReloadDamaged(damage)

SpecRestore == Init /\ [][NextRestore]_vars

\* layers parsed by an import, by the selection of a layer and by a page load
NextParse ==
  \/ AddLayer
  \/ \E id \in 1..MaxLayerId : SelectLayer(id)
  \/ \E text \in ParseTexts : ImportChatFile(text)
  \/ \E strip \in BOOLEAN : SetStripTimestamps(strip)
  \/ \E id \in 1..MaxLayerId : ToggleVisible(id)
  \/ Reload

SpecParse == Init /\ [][NextParse]_vars

\* the v-model of the Screenshot Name field
SetScreenshotTheme(theme) ==
  /\ screenshotTheme' = theme
  /\ ExportOp("screenshotTheme", <<theme>>)
  /\ canvas' = BlankCanvas
  /\ UNCHANGED <<chatLayers, selectedChatLayerId, nextChatLayerId, censoredRegions,
                 selectedText, stripTimestamps, characterName, chatLineWidth,
                 droppedImageSrc, imageTransform, cookie, usedIds, filePickerSupported,
                 alwaysPromptSaveLocation, exports, isImageDraggingEnabled,
                 isChatDraggingEnabled, isPanning, isChatPanning, isResizingChatPanel,
                 listeners, readers>>

\* saveImage names the blob at the time now; the name is kept in op.arg
BuildFilename(now) ==
  /\ droppedImageSrc # Null
  /\ ExportOp("buildScreenshotFilename", <<now, buildScreenshotFilename(screenshotTheme, now)>>)
  /\ canvas' = BlankCanvas
  /\ ExportFrame /\ UNCHANGED <<alwaysPromptSaveLocation, exports>>

\* screenshots named at several times under several names
NextFilename ==
  \/ UploadImage
  \/ ResetSession
  \/ \E theme \in Themes : SetScreenshotTheme(theme)
  \/ \E now \in Times : BuildFilename(now)

SpecFilename == Init /\ [][NextFilename]_vars

\* the overlay of layer i is on the page
OverlayShown(i) ==
  droppedImageSrc # Null /\ chatLayers[i].visible /\ Len(chatLayers[i].parsedLines) > 0

\* characters selected with the mouse in an overlay line while the textarea
\* has its caret at position caret
SelectOverlayText(caret, selected) ==
  /\ \E i \in 1..Len(chatLayers) : OverlayShown(i)
  /\ Commit(Cur, overlayTextSelected(Cur, Clamp(caret), Clamp(caret), selected),
            "handleTextSelection", <<Clamp(caret), Clamp(caret)>>)
  /\ canvas' = BlankCanvas

\* regions made from selections in the textarea and in the overlay, saved,
\* restored and exported
NextOverlay ==
  \/ \E text \in CensorTexts : ImportChatFile(text)
  \/ UploadImage
  \/ \E r \in OverlayRanges : SelectText(r[1], r[2])
  \/ \E caret \in OverlayCarets : SelectOverlayText(caret, <<"a">>)
  \/ CycleCensor
  \/ Reload
  \/ SaveImage

SpecOverlay == Init /\ [][NextOverlay]_vars

\* export of layers whose lines carry markers
NextColors ==
  \/ AddLayer
  \/ \E id \in 1..MaxLayerId : SelectLayer(id)
  \/ \E text \in ColorTexts : ImportChatFile(text)
  \/ UploadImage
  \/ \E w \in ExportWidths : SetChatLineWidth(w)
  \/ SaveImage

SpecColors == Init /\ [][NextColors]_vars

\* the toolbar button of the chat drag/zoom mode; arg keeps what the image
\* mode was
ToggleChatDrag ==
  /\ Commit(Cur, toggleChatDrag(Cur), "toggleChatDrag", <<isImageDraggingEnabled>>)
  /\ canvas' = BlankCanvas

\* @mousedown, @mousemove, @mouseup / @mouseleave of the image
ImageMouseDown ==
  /\ droppedImageSrc # Null
  /\ Commit(Cur, handleImageMouseDown(Cur), "handleImageMouseDown", <<>>)
  /\ canvas' = BlankCanvas

ImageMouseMove(deltaX) ==
  /\ droppedImageSrc # Null
  /\ imageTransform.x + deltaX \in (0 - MaxPan)..MaxPan
  /\ Commit(Cur, handleImageMouseMove(Cur, deltaX), "handleImageMouseMove", <<deltaX>>)
  /\ canvas' = BlankCanvas

ImageMouseUpOrLeave ==
  /\ droppedImageSrc # Null
  /\ Commit(Cur, handleImageMouseUpOrLeave(Cur), "handleImageMouseUpOrLeave", <<>>)
  /\ canvas' = BlankCanvas

\* the overlay that takes pointer events: that of the active layer, in chat
\* drag mode
OverlayGrabbed ==
  /\ activeChatLayer(Cur) # 0
  /\ OverlayShown(activeChatLayer(Cur))
  /\ isChatDraggingEnabled

\* @mousedown, @mousemove, @mouseup / @mouseleave of the chat overlay
ChatMouseDown ==
  /\ OverlayGrabbed
  /\ Commit(Cur, handleChatMouseDown(Cur), "handleChatMouseDown", <<>>)
  /\ canvas' = BlankCanvas

ChatMouseMove(deltaX) ==
  /\ OverlayGrabbed
  /\ chatLayers[activeChatLayer(Cur)].transform.x + deltaX \in (0 - MaxPan)..MaxPan
  /\ Commit(Cur, handleChatMouseMove(Cur, deltaX), "handleChatMouseMove", <<deltaX>>)
  /\ canvas' = BlankCanvas

ChatMouseUpOrLeave ==
  /\ OverlayGrabbed
  /\ Commit(Cur, handleChatMouseUpOrLeave(Cur), "handleChatMouseUpOrLeave", <<>>)
  /\ canvas' = BlankCanvas

\* what the handlers of the panel resize leave alone
ResizeFrame ==
  /\ canvas' = BlankCanvas
  /\ UNCHANGED <<chatLayers, selectedChatLayerId, nextChatLayerId, censoredRegions,
                 selectedText, stripTimestamps, characterName, chatLineWidth,
                 droppedImageSrc, imageTransform, cookie, usedIds, filePickerSupported,
                 alwaysPromptSaveLocation, screenshotTheme, exports,
                 isImageDraggingEnabled, isChatDraggingEnabled, isPanning, isChatPanning,
                 readers>>

\* @mousedown of the resize handle
ResizeMouseDown ==
  /\ isResizingChatPanel' = TRUE
  /\ listeners' = listeners \cup ResizeListeners
  /\ ExportOp("handleResizeMouseDown", <<>>)
  /\ ResizeFrame

\* mouseup on the document while handleResizeMouseUp is registered for it
ResizeMouseUp ==
  /\ <<"mouseup", "handleResizeMouseUp">> \in listeners
  /\ isResizingChatPanel' = FALSE
  /\ listeners' = listeners \ ResizeListeners
  /\ ExportOp("handleResizeMouseUp", <<>>)
  /\ ResizeFrame

\* drags of the image, of the chat overlay and of the panel border
NextGesture ==
  \/ UploadImage
  \/ \E text \in StoreTexts : ImportChatFile(text)
  \/ ToggleImageDrag
  \/ ToggleChatDrag
  \/ ImageMouseDown
  \/ \E deltaX \in PanDeltas : ImageMouseMove(deltaX)
  \/ ImageMouseUpOrLeave
  \/ ChatMouseDown
  \/ \E deltaX \in PanDeltas : ChatMouseMove(deltaX)
  \/ ChatMouseUpOrLeave
  \/ ResizeMouseDown
  \/ ResizeMouseUp
  \/ ResetSession

SpecGesture == Init /\ [][NextGesture]_vars

\* the data URL that readAsDataURL produces for a file; the files of
\* UploadFiles differ in content
DataUrl(file) == IF file.name = <<"b",".","p","n","g">> THEN "image b" ELSE "image a"

\* a drop of an image file up to reader.readAsDataURL(file)
StartUpload(file) ==
  /\ Len(readers) < MaxUploads
  /\ isImageFile(file)
  /\ readers' = Append(readers, [result |-> DataUrl(file), loaded |-> FALSE])
  /\ Assign(Cur, "handleDrop", <<<<file>>>>)
  /\ canvas' = BlankCanvas
  /\ UNCHANGED <<cookie, isResizingChatPanel, listeners>>

\* the load event of reader k
FinishRead(k) ==
  /\ k <= Len(readers)
  /\ ~readers[k].loaded
  /\ readers' = [readers EXCEPT ![k].loaded = TRUE]
  /\ Assign(readerOnload(Cur, readers[k].result), "reader.onload", <<k>>)
  /\ cookie' = IF Watched(readerOnload(Cur, readers[k].result)) = Watched(Cur)
                 THEN cookie ELSE <<saveEditorState(readerOnload(Cur, readers[k].result))>>
  /\ canvas' = BlankCanvas
  /\ UNCHANGED <<isResizingChatPanel, listeners>>

\* image files read one after another and at the same time
NextUpload ==
  \/ \E file \in UploadFiles : StartUpload(file)
  \/ \E k \in 1..MaxUploads : FinishRead(k)
  \/ ToggleImageDrag
  \/ \E deltaX \in PanDeltas : PanImage(deltaX)
  \/ ResetSession

SpecUpload == Init /\ [][NextUpload]_vars

\* the overlay of the active layer dragged in chat drag mode: mouse down,
\* move and up
PanChat(deltaX) ==
  /\ OverlayGrabbed
  /\ chatLayers[activeChatLayer(Cur)].transform.x + deltaX \in (0 - MaxPan)..MaxPan
  /\ Commit(Cur, handleChatMouseUpOrLeave(
                    handleChatMouseMove(handleChatMouseDown(Cur), deltaX)),
            "handleChatMouseMove", <<deltaX>>)
  /\ canvas' = BlankCanvas

\* export of several layers, hidden or shown, each dragged to its place
NextVisible ==
  \/ AddLayer
  \/ \E id \in 1..MaxLayerId : SelectLayer(id)
  \/ \E text \in StoreTexts : ImportChatFile(text)
  \/ \E id \in 1..MaxLayerId : ToggleVisible(id)
  \/ ToggleChatDrag
  \/ \E deltaX \in PanDeltas : PanChat(deltaX)
  \/ UploadImage
  \/ SaveImage

SpecVisible == Init /\ [][NextVisible]_vars

\* sessions with an image, layers, regions and a drag mode, reset and
\* loaded again
NextSession ==
  \/ AddLayer
  \/ \E text \in StoreTexts : ImportChatFile(text)
  \/ \E r \in StoreRanges : SelectText(r[1], r[2])
  \/ CycleCensor
  \/ UploadImage
  \/ ToggleImageDrag
  \/ ToggleChatDrag
  \/ ResetSession
  \/ Reload

SpecSession == Init /\ [][NextSession]_vars

----------------------------------------------------------------------------
(* Properties                                                              *)

Identity(r) == [layerId |-> r.layerId, lineIndex |-> r.lineIndex,
                startOffset |-> r.startOffset, endOffset |-> r.endOffset]

\* the kind stored for an identity, "absent" when the store has no such region
KindOf(regions, ident) ==
  IF RegionIndex(regions, ident) = 0 THEN "absent"
  ELSE regions[RegionIndex(regions, ident)].type

Identities(regions) == {Identity(regions[i]) : i \in 1..Len(regions)}

NextKind(kind) ==
  CASE kind = "absent"    -> "invisible"
    [] kind = "invisible" -> "blackbar"
    [] kind = "blackbar"  -> "blur"
    [] kind = "blur"      -> "absent"

\* C2: each cycleCensorType call on a valid selection moves the region of the
\* selection's identity one step along absent -> invisible -> blackbar ->
\* blur -> absent, and every other identity keeps its presence and its kind
C2_CycleOrder ==
  [][(op'.name = "cycleCensorType" /\ selectedText.lineIndex # -1 /\ selectedText.layerId # -1)
       => /\ KindOf(censoredRegions', Identity(selectedText))
               = NextKind(KindOf(censoredRegions, Identity(selectedText)))
          /\ \A ident \in Identities(censoredRegions) \cup Identities(censoredRegions') :
               ident # Identity(selectedText)
                 => KindOf(censoredRegions', ident) = KindOf(censoredRegions, ident)]_vars

\* the fourth call has just taken the selected identity from blur to absent
\* while another region is in the store
C2_Witness ==
  /\ op.name = "cycleCensorType"
  /\ selectedText.lineIndex # -1
  /\ KindOf(censoredRegions, Identity(selectedText)) = "absent"
  /\ Len(censoredRegions) = op.pre.regions - 1
  /\ Len(censoredRegions) >= 1

\* C4: removing one of several layers deletes the censor regions of that
\* layer and no other: none with its id remains, every region of another
\* layer is still there unchanged, and nothing is added
C4_CascadeExact ==
  [][(op'.name = "removeChatLayer" /\ Len(chatLayers) > 1
        /\ op'.arg[1] \in LayerIds(chatLayers))
       => /\ \A i \in 1..Len(censoredRegions') : censoredRegions'[i].layerId # op'.arg[1]
          /\ \A i \in 1..Len(censoredRegions) :
               censoredRegions[i].layerId # op'.arg[1]
                 => censoredRegions[i] \in Range(censoredRegions')
          /\ Range(censoredRegions') \subseteq Range(censoredRegions)]_vars

\* a layer was removed, a region went with it and another layer's region stayed
C4_Witness ==
  /\ op.name = "removeChatLayer"
  /\ Len(chatLayers) = op.pre.layers - 1
  /\ Len(censoredRegions) < op.pre.regions
  /\ Len(censoredRegions) >= 1

\* C6: the store holds at most one region per identity
C6_OnePerIdentity ==
  \A i, j \in 1..Len(censoredRegions) :
    Identity(censoredRegions[i]) = Identity(censoredRegions[j]) => i = j

\* an identity that already had a region was cycled, next to another region
C6_Witness ==
  /\ op.name = "cycleCensorType"
  /\ Len(censoredRegions) = op.pre.regions
  /\ Len(censoredRegions) >= 2
  /\ KindOf(censoredRegions, Identity(selectedText)) = "blur"

\* C7: cycleCensorType with lineIndex = -1 or layerId = -1 leaves the censor
\* store as it was
C7_NoSelectionNoOp ==
  [][(op'.name = "cycleCensorType"
        /\ (selectedText.lineIndex = -1 \/ selectedText.layerId = -1))
       => censoredRegions' = censoredRegions]_vars

\* cycleCensorType ran without a selection over a non-empty store
C7_Witness ==
  /\ op.name = "cycleCensorType"
  /\ selectedText.lineIndex = -1
  /\ Len(censoredRegions) >= 1

\* C5: no two layers of the store share an id, and a layer that enters the
\* store with an id the store did not hold gets an id that no layer, deleted
\* ones included, was ever given by createChatLayer (usedIds records them
\* across page loads)
C5_IdsNeverReused ==
  /\ [](\A i, j \in 1..Len(chatLayers) : chatLayers[i].id = chatLayers[j].id => i = j)
  /\ [][\A id \in LayerIds(chatLayers') \ LayerIds(chatLayers) : id \notin usedIds]_vars

\* the characters of the line's plain text that a paint operation covers
Covers(o) == {o.src + k : k \in 0..(Len(o.text) - 1)}

\* offset n of line lineIndex of layer layerId lies inside a censor region
Censored(layerId, lineIndex, n) ==
  \E i \in 1..Len(censoredRegions) :
    /\ censoredRegions[i].layerId = layerId
    /\ censoredRegions[i].lineIndex = lineIndex
    /\ censoredRegions[i].startOffset <= n
    /\ n < censoredRegions[i].endOffset

\* C3: in the canvas that saveImage has just painted, no operation that
\* paints normal outlined glyphs covers a character whose offset in its line
\* lies inside a censor region of that layer and line
C3_NoCensoredGlyphs ==
  (op.name = "saveImage" /\ droppedImageSrc # Null) =>
    \A i \in 1..Len(canvas.ops) :
      canvas.ops[i].kind = "glyphs" =>
        \A n \in Covers(canvas.ops[i]) :
          ~Censored(canvas.ops[i].layerId, canvas.ops[i].lineIndex, n)

\* the run texts saveImage emitted for a line, in order
RunTexts(layerId, lineIndex) ==
  SelectSeq(canvas.runs, LAMBDA r : r.layerId = layerId /\ r.lineIndex = lineIndex)

TextsOf(runs) == [i \in 1..Len(runs) |-> runs[i].text]

\* C9: in the canvas that saveImage has just painted, for every line of a
\* visible layer that is wider than chatLineWidth, the emitted runs joined
\* with single spaces are the line's plain text
C9_WrapRoundTrip ==
  (op.name = "saveImage" /\ droppedImageSrc # Null) =>
    \A i \in 1..Len(chatLayers) :
      chatLayers[i].visible =>
        \A k \in 1..Len(chatLayers[i].parsedLines) :
          measureText(stripHtml(chatLayers[i].parsedLines[k].text)) > chatLineWidth =>
            JoinSpace(TextsOf(RunTexts(chatLayers[i].id, k - 1)))
              = stripHtml(chatLayers[i].parsedLines[k].text)

\* the lines of layer i are the parse of its text under the current options
InSync(i) ==
  /\ chatLayers[i].text # <<>>
  /\ chatLayers[i].parsedLines
       = ParseLines(chatLayers[i].text, stripTimestamps, characterName)

\* region r designates, in the plain text rendered for its line of layer i,
\* the characters of the selection it was created from
CoversSelection(r, i) ==
  /\ r.lineIndex >= 0
  /\ r.lineIndex < Len(chatLayers[i].parsedLines)
  /\ Trim(Slice(stripHtml(chatLayers[i].parsedLines[r.lineIndex + 1].text),
                r.startOffset, r.endOffset)) = selectedText.text

\* C8: when cycleCensorType has just created a region from the selection and
\* the lines of the region's layer are the parse of its text, the region's
\* line index and offsets designate the selected characters in the plain
\* text rendered for that line
C8_RegionCoversSelection ==
  (op.name = "cycleCensorType" /\ Len(censoredRegions) = op.pre.regions + 1) =>
    \A i \in 1..Len(chatLayers) :
      (chatLayers[i].id = censoredRegions[Len(censoredRegions)].layerId /\ InSync(i)) =>
        CoversSelection(censoredRegions[Len(censoredRegions)], i)

\* the CSS colour a colour string names
Canon(color) == IF color = "white" THEN White ELSE color

\* the text the rules were tested on for line k of layer i
TestedText(i, k) == ProcessedText(SurvivingLines(chatLayers[i].text)[k], stripTimestamps)

\* the full-line rules that are not player-aware and match text
FullLineRules(text) ==
  {j \in Matches(text) : colorMappings[j].fullLine /\ ~colorMappings[j].checkPlayerName}

\* tier 1 applies to text: a player name is set and a player-aware rule matches
PlayerAware(text) ==
  characterName # <<>> /\ \E j \in Matches(text) : colorMappings[j].checkPlayerName

Stamped(text) == Len(text) > Len(T_stamp) /\ SubSeq(text, 1, Len(T_stamp)) = T_stamp

\* the text T that follows the timestamp
AfterStamp(text) == SubSeq(text, Len(T_stamp) + 1, Len(text))

\* the display text and the colour of each parsed line
Shown(lines) == [k \in 1..Len(lines) |-> [text |-> lines[k].text, color |-> lines[k].color]]

\* C11: with timestamp stripping enabled, a line "[12:34:56] " followed by T
\* is parsed to the display text and the colour that the line T alone is
\* parsed to, under the same player name
C11_StampIgnored ==
  \A i \in 1..Len(chatLayers) :
    (stripTimestamps /\ InSync(i) /\ Stamped(chatLayers[i].text))
      => Shown(chatLayers[i].parsedLines)
           = Shown(ParseLines(AfterStamp(chatLayers[i].text), TRUE, characterName))

\* layer holds what its text parses to under the settings strip and name
ParsedUnder(layer, strip, name) ==
  layer.parsedLines = IF layer.text = <<>> THEN <<>> ELSE ParseTable[<<layer.text, strip, name>>]

NonBlankLines(text) ==
  SelectSeq(SplitChar(text, "\n"), LAMBDA line : \E c \in Range(line) : c \notin WhiteSpace)

\* C13: the lines that an import has parsed for the active layer are one per
\* input line that is not blank, in input order, numbered 0, 1, 2, ...; the
\* empty text gives no line
C13_OneLinePerNonBlank ==
  op.name = "handleChatFileSelect" =>
    \A i \in 1..Len(chatLayers) : chatLayers[i].id = selectedChatLayerId =>
      /\ Len(chatLayers[i].parsedLines) = Len(NonBlankLines(chatLayers[i].text))
      /\ \A k \in 1..Len(chatLayers[i].parsedLines) :
           /\ chatLayers[i].parsedLines[k].id = k - 1
           /\ stripHtml(chatLayers[i].parsedLines[k].text)
                = ProcessedText(NonBlankLines(chatLayers[i].text)[k], stripTimestamps)
      /\ chatLayers[i].text = <<>> => chatLayers[i].parsedLines = <<>>

\* the text with blank and empty lines around "a" and "b" has been imported
C13_Witness ==
  /\ op.name = "handleChatFileSelect"
  /\ chatLayers[1].text = T_blank
  /\ Len(chatLayers[1].parsedLines) = 2
  /\ chatLayers[1].parsedLines[2].text = <<"b">>

\* C14: selectChatLayer with an id that no layer of the store has makes the
\* first layer of the store the selected one
C14_UnknownSelectsFirst ==
  [][(op'.name = "selectChatLayer" /\ op'.arg[1] \notin LayerIds(chatLayers))
       => selectedChatLayerId' = chatLayers'[1].id]_vars

\* the position in the store of the layer that the move names, 0 for none
Moved == LayerIndex(Cur, op'.arg[1])

\* the position that the move exchanges it with
Neighbour == IF op'.arg[2] = "up" THEN Moved - 1 ELSE Moved + 1

\* C15: moveChatLayer exchanges the layer with its neighbour in the given
\* direction and leaves every other layer, every field of the layers, the
\* selected id, the selection and the censor regions as they were; the first
\* layer moved up, the last layer moved down and an unknown id change nothing
C15_MoveSwapsNeighbours ==
  [][op'.name = "moveChatLayer"
       => /\ selectedChatLayerId' = selectedChatLayerId
          /\ censoredRegions' = censoredRegions
          /\ selectedText' = selectedText
          /\ IF Moved = 0 \/ Neighbour < 1 \/ Neighbour > Len(chatLayers)
               THEN chatLayers' = chatLayers
               ELSE /\ Len(chatLayers') = Len(chatLayers)
                    /\ chatLayers'[Moved] = chatLayers[Neighbour]
                    /\ chatLayers'[Neighbour] = chatLayers[Moved]
                    /\ \A k \in 1..Len(chatLayers) \ {Moved, Neighbour} :
                         chatLayers'[k] = chatLayers[k]]_vars

\* the younger layer has just been moved up past the older one, in a store
\* with a censor region
C15_Witness ==
  /\ op.name = "moveChatLayer"
  /\ Len(chatLayers) >= 2
  /\ chatLayers[1].id > chatLayers[2].id
  /\ op.arg = <<chatLayers[1].id, "up">>
  /\ Len(censoredRegions) >= 1

\* the page has just been loaded from a document damaged in the field f
LoadedWithout(f) == op'.name = "onMounted" /\ op'.arg # <<>> /\ op'.arg[1] = f

\* every layer of the saved document is in the store with its id and text
LayersRestored ==
  \A k \in 1..Len(cookie[1].chatLayers) :
    \E i \in 1..Len(chatLayers') :
      /\ chatLayers'[i].id = cookie[1].chatLayers[k].id
      /\ chatLayers'[i].text = cookie[1].chatLayers[k].text

\* C16: a page load from a saved document in which one field is absent or
\* malformed gives that field its default and restores every other field
\* from the document
C16_BadFieldDefaults ==
  [][/\ LoadedWithout("censoredRegions")
          => /\ censoredRegions' = <<>>
             /\ stripTimestamps' = cookie[1].stripTimestamps
             /\ selectedChatLayerId' = cookie[1].selectedChatLayerId
             /\ LayersRestored
     /\ LoadedWithout("stripTimestamps")
          => /\ stripTimestamps' = FALSE
             /\ censoredRegions' = cookie[1].censoredRegions
             /\ selectedChatLayerId' = cookie[1].selectedChatLayerId
             /\ LayersRestored
     /\ LoadedWithout("chatLayers")
          => /\ censoredRegions' = cookie[1].censoredRegions
             /\ stripTimestamps' = cookie[1].stripTimestamps
             /\ Len(chatLayers') >= 1]_vars

\* the fields of the layers that the snapshot holds, in store order
SavedLayers(layers) ==
  [i \in 1..Len(layers) |-> [id        |-> layers[i].id,
                             name      |-> layers[i].name,
                             text      |-> layers[i].text,
                             transform |-> layers[i].transform,
                             visible   |-> layers[i].visible]]

\* C17: a page load from the snapshot saved of the current state brings back
\* every layer with its id, name, text, transform and visible flag, the
\* layers in the same order, the selected layer id and the set of censor
\* regions
C17_SnapshotRoundTrip ==
  [][(op'.name = "onMounted" /\ op'.arg = <<>> /\ cookie = <<saveEditorState(Cur)>>)
       => /\ SavedLayers(chatLayers') = SavedLayers(chatLayers)
          /\ selectedChatLayerId' = selectedChatLayerId
          /\ Range(censoredRegions') = Range(censoredRegions)]_vars

\* the step just taken is the one in which an export meets a missing canvas
\* context, an image that does not decode or an encoding without blob
ExportBreaks ==
  \/ op'.name = "saveImage:start" /\ op'.arg[2] = Null
  \/ op'.name = "saveImage:image" /\ ~op'.arg[2]
  \/ op'.name = "saveImage:blob" /\ op'.arg[2] = Null

\* C18: an export that finds no canvas context, whose image does not decode
\* or whose encoding gives no blob ends in the catch of saveImage at that
\* step, and neither the save dialog nor the download is ever invoked for it
C18_FailedExportSavesNothing ==
  /\ [][ExportBreaks => exports'[op'.arg[1]].pc = "failed"]_vars
  /\ [](\A e \in 1..Len(exports) :
          exports[e].pc = "failed" => /\ exports[e].dialog = "none"
                                      /\ exports[e].delivered = <<>>)
  /\ [][\A e \in 1..Len(exports) : exports[e].pc = "failed" => exports'[e] = exports[e]]_vars

\* of two exports, one has ended on a missing blob and the other on an image
\* that did not decode
C18_Witness ==
  /\ Len(exports) = 2
  /\ {exports[1].cause, exports[2].cause} = {"blob", "decode"}

InFlight(e) == exports[e].pc \notin {"done", "failed"}

\* C20: at most one export is in flight at any time
C20_OneExportInFlight ==
  \A e, f \in 1..Len(exports) : (InFlight(e) /\ InFlight(f)) => e = f

\* the MIME type of the file says image
TypedImage(file) == Len(file.type) >= 6 /\ SubSeq(file.type, 1, 6) = L_imageSlash

\* the name of the file ends in an image extension, in any case
NamedImage(file) ==
  \E ext \in ImageExtensions :
    Len(file.name) >= Len(ext)
      /\ LowerSeq(SubSeq(file.name, Len(file.name) - Len(ext) + 1, Len(file.name))) = ext

\* the file is plain text by its MIME type or by its name
TextFile(file) ==
  \/ file.type = L_textPlain
  \/ Len(file.name) >= 4 /\ SubSeq(file.name, Len(file.name) - 3, Len(file.name)) = L_dotTxt

\* the input that has just handled a file has turned it away: the picker a
\* file whose type is not an image type, the drop zone a file that neither
\* its type nor its name makes an image, the chat input a file that is not a
\* text file
Rejected ==
  /\ op'.name \in {"handleFileSelect", "handleDrop", "chatFileSelected"}
  /\ op'.arg[1] # <<>>
  /\ op'.name = "handleFileSelect" => ~TypedImage(op'.arg[1][1])
  /\ op'.name = "handleDrop" => ~TypedImage(op'.arg[1][1]) /\ ~NamedImage(op'.arg[1][1])
  /\ op'.name = "chatFileSelected" => ~TextFile(op'.arg[1][1])

\* C21: a file that an input rejects changes no editor state: the
\* background image, the image transform, the layers with their text and
\* parsed lines, the censor regions, the selection and the saved snapshot
\* stay as they were
C21_RejectedFileNoChange ==
  [][Rejected
       => /\ droppedImageSrc' = droppedImageSrc
          /\ imageTransform' = imageTransform
          /\ chatLayers' = chatLayers
          /\ selectedChatLayerId' = selectedChatLayerId
          /\ censoredRegions' = censoredRegions
          /\ selectedText' = selectedText
          /\ cookie' = cookie]_vars

\* a text file has been dropped on a background image that had been dragged
\* from its place
C21_Witness ==
  /\ op.name = "handleDrop"
  /\ op.arg[1] # <<>>
  /\ op.arg[1][1].type = L_textPlain
  /\ ~NamedImage(op.arg[1][1])
  /\ droppedImageSrc # Null
  /\ imageTransform # Transform0

\* the colour that an inline <span style="color: ..."> token sets
SpanColor(token) ==
  CHOOSE c \in {colorMappings[k].color : k \in Rules} \cup {colorMappings[k].markerColor : k \in Rules} :
    SpanOpen(c) = token

\* the colour of each character of a line in the live overlay: the div has
\* :style="{ color: line.color }", its v-html the line's text, whose spans
\* set their own colour
RECURSIVE OverlayColors(_, _, _)
OverlayColors(html, current, base) ==
  IF html = <<>> THEN <<>>
  ELSE IF Head(html) = SpanClose THEN OverlayColors(Tail(html), base, base)
  ELSE IF Head(html) \in MarkupTokens THEN OverlayColors(Tail(html), SpanColor(Head(html)), base)
  ELSE <<current>> \o OverlayColors(Tail(html), current, base)

\* the parsed line that a paint operation belongs to
LineOfOp(o) ==
  chatLayers[LayerIndex(Cur, o.layerId)].parsedLines[o.lineIndex + 1]

\* C22: in the canvas that saveImage has just painted, every character drawn
\* as normal glyphs has the colour it has in the live overlay: the line's
\* colour, or the colour of the inline span it stands in
C22_ExportColorsMatchOverlay ==
  (op.name = "saveImage" /\ droppedImageSrc # Null) =>
    \A i \in 1..Len(canvas.ops) :
      canvas.ops[i].kind = "glyphs" =>
        \A n \in Covers(canvas.ops[i]) :
          Canon(canvas.ops[i].color)
            = Canon(OverlayColors(LineOfOp(canvas.ops[i]).text,
                                  LineOfOp(canvas.ops[i]).color,
                                  LineOfOp(canvas.ops[i]).color)[n + 1])

\* what the browser shows of an HTML string: the characters outside the
\* tags, entities decoded
Decoded(token) ==
  CASE token = "&amp;"  -> "&"
    [] token = "&lt;"   -> "<"
    [] token = "&gt;"   -> ">"
    [] token = "&quot;" -> "\""
    [] token = "&#039;" -> "'"
    [] OTHER            -> token

IsTag(token) == token \in MarkupTokens \cup {CensorOpen(t) : t \in CensorTypes}

RECURSIVE TextContent(_)
TextContent(html) ==
  IF html = <<>> THEN <<>>
  ELSE IF IsTag(Head(html)) THEN TextContent(Tail(html))
  ELSE <<Decoded(Head(html))>> \o TextContent(Tail(html))

\* the censored class each shown character stands in, "none" outside a
\* censored span
RECURSIVE Treatments(_, _)
Treatments(html, current) ==
  IF html = <<>> THEN <<>>
  ELSE IF Head(html) = SpanClose THEN Treatments(Tail(html), "none")
  ELSE IF IsTag(Head(html))
    THEN Treatments(Tail(html), CHOOSE t \in CensorTypes : CensorOpen(t) = Head(html))
  ELSE <<current>> \o Treatments(Tail(html), current)

\* the kind of the first region, in ascending startOffset, that covers
\* offset n, "none" when no region does
FirstCovering(regions, n) ==
  IF \E k \in 1..Len(regions) : regions[k].startOffset <= n /\ n < regions[k].endOffset
    THEN regions[CHOOSE k \in 1..Len(regions) :
                   /\ regions[k].startOffset <= n /\ n < regions[k].endOffset
                   /\ \A j \in 1..(k - 1) :
                        ~(regions[j].startOffset <= n /\ n < regions[j].endOffset)].type
    ELSE "none"

\* line k of layer i shown in the overlay
OverlayLine(i, k) ==
  applyCensoring(Cur, chatLayers[i].parsedLines[k].text, k - 1, chatLayers[i].id)

\* C23: the live overlay shows every character of a line exactly once, in
\* order, whatever regions of the line overlap, and a character has the
\* treatment of the first region covering it in ascending startOffset
C23_OverlapEmitsOnce ==
  \A i \in 1..Len(chatLayers) :
    \A k \in 1..Len(chatLayers[i].parsedLines) :
      /\ TextContent(OverlayLine(i, k)) = stripHtml(chatLayers[i].parsedLines[k].text)
      /\ \A n \in 1..Len(TextContent(OverlayLine(i, k))) :
           Treatments(OverlayLine(i, k), "none")[n]
             = FirstCovering(LineRegions(Cur, k - 1, chatLayers[i].id), n - 1)

\* the two decimal digits of a number below 100
TwoDigits(n) == <<DigitOf(n \div 10), DigitOf(n % 10)>>

FourDigits(n) == TwoDigits(n \div 100) \o TwoDigits(n % 100)

\* the words of s: its maximal stretches of characters outside blank
RECURSIVE WordsOf(_, _)
WordsOf(s, blank) ==
  IF s = <<>> THEN <<>>
  ELSE IF Head(s) \in blank THEN WordsOf(Tail(s), blank)
  ELSE IF \E i \in 1..Len(s) : s[i] \in blank
    THEN LET i == CHOOSE j \in 1..Len(s) : s[j] \in blank /\ \A k \in 1..(j - 1) : s[k] \notin blank
         IN  <<SubSeq(s, 1, i - 1)>> \o WordsOf(SubSeq(s, i, Len(s)), blank)
  ELSE <<s>>

\* Array.prototype.join('-')
RECURSIVE JoinHyphen(_)
JoinHyphen(ss) ==
  IF ss = <<>> THEN <<>>
  ELSE IF Len(ss) = 1 THEN ss[1]
  ELSE ss[1] \o <<"-">> \o JoinHyphen(Tail(ss))

\* the theme part of the name: the characters outside the letters, digits,
\* _ and - and outside blank are dropped, and what remains is its words
\* joined by hyphens
ThemePart(theme, blank) ==
  JoinHyphen(WordsOf(SelectSeq(theme, LAMBDA c : IsWordChar(c) \/ c = "-" \/ c \in blank), blank))

\* DDMMYYYY - HHMM - theme.png
NameAt(now, themePart) ==
  TwoDigits(now.date) \o TwoDigits(now.month + 1) \o FourDigits(now.fullYear)
    \o <<" ","-"," ">> \o TwoDigits(now.hours) \o TwoDigits(now.minutes) \o <<" ","-"," ">>
    \o (IF themePart = <<>> THEN <<"s","c","r","e","e","n","s","h","o","t">> ELSE themePart)
    \o <<".","p","n","g">>

\* C24 as stated: the theme keeps only the characters of [A-Za-z0-9 _-], the
\* space being the only blank
C24_ThemeKeepsSpacesOnly ==
  op.name = "buildScreenshotFilename" =>
    op.arg[2] = NameAt(op.arg[1], ThemePart(screenshotTheme, {" "}))

\* C24: the export filename is DDMMYYYY - HHMM - theme.png with zero-padded
\* parts, where theme is the configured name without the characters that
\* are neither in [A-Za-z0-9_-] nor white space, trimmed, each run of white
\* space (spaces, tabs, line breaks) replaced by one hyphen, or "screenshot"
\* when nothing remains; "My Screenshot!" on 2024-03-05 14:07 gives
\* "05032024 - 1407 - My-Screenshot.png"
C24_Filename ==
  op.name = "buildScreenshotFilename" =>
    /\ op.arg[2] = NameAt(op.arg[1], ThemePart(screenshotTheme, WhiteSpace \cup {"\n"}))
    /\ (screenshotTheme = T_myScreenshot /\ op.arg[1].date = 5 /\ op.arg[1].month = 2
          /\ op.arg[1].fullYear = 2024 /\ op.arg[1].hours = 14 /\ op.arg[1].minutes = 7)
         => op.arg[2] = <<"0","5","0","3","2","0","2","4"," ","-"," ","1","4","0","7"," ","-"," ",
                         "M","y","-","S","c","r","e","e","n","s","h","o","t",".","p","n","g">>

\* the screenshot named "My Screenshot!" has been named on 2024-03-05 at 14:07
C24_Witness ==
  /\ op.name = "buildScreenshotFilename"
  /\ screenshotTheme = T_myScreenshot
  /\ op.arg[1] = [date |-> 5, month |-> 2, fullYear |-> 2024, hours |-> 14, minutes |-> 7]

PlainOfRun(run) ==
  stripHtml(chatLayers[LayerIndex(Cur, run.layerId)].parsedLines[run.lineIndex + 1].text)

\* C27: in the canvas that saveImage has just painted, the line-start offset
\* passed with every run is where the run stands in the plain text of its
\* line: the plain text from that offset on, over the length of the run, is
\* the run
C27_RunOffsetsExact ==
  (op.name = "saveImage" /\ droppedImageSrc # Null) =>
    \A i \in 1..Len(canvas.runs) :
      Slice(PlainOfRun(canvas.runs[i]), canvas.runs[i].start,
            canvas.runs[i].start + Len(canvas.runs[i].text)) = canvas.runs[i].text

\* the plain text of the line that a paint operation belongs to
PlainOfOp(o) == stripHtml(LineOfOp(o).text)

\* C28: in the canvas that saveImage has just painted, on every line that
\* fits the line width, text drawn as normal glyphs stands at the x position
\* it has without censoring, the left margin plus the measured width of the
\* line's text before it, whatever censored spans of whatever kind precede it
C28_CursorAfterCensor ==
  (op.name = "saveImage" /\ droppedImageSrc # Null) =>
    \A i \in 1..Len(canvas.ops) :
      (canvas.ops[i].kind = "glyphs"
         /\ measureText(PlainOfOp(canvas.ops[i])) <= chatLineWidth)
        => canvas.ops[i].x = 4 + measureText(Slice(PlainOfOp(canvas.ops[i]), 0, canvas.ops[i].src))

\* the first player-aware rule that matches text
PlayerRule(text) == FirstRule({j \in Matches(text) : colorMappings[j].checkPlayerName})

C30_FallbackFirstMatch ==
  \A i \in 1..Len(chatLayers) : InSync(i) =>
    \A k \in 1..Len(chatLayers[i].parsedLines) :
      (/\ ~PlayerAware(TestedText(i, k))
       /\ FullLineRules(TestedText(i, k)) = {}
       /\ chatLayers[i].parsedLines[k].text = TestedText(i, k))
        => chatLayers[i].parsedLines[k].color
             = IF Matches(TestedText(i, k)) = {} THEN "white"
               ELSE colorMappings[FirstRule(Matches(TestedText(i, k)))].color

\* the layers other than the one at index i keep their parsed lines
OthersKeepLines(i) ==
  /\ Len(chatLayers') = Len(chatLayers)
  /\ \A j \in 1..Len(chatLayers) : j # i => chatLayers'[j].parsedLines = chatLayers[j].parsedLines

\* C31: selectChatLayer(id) of a layer in the store makes it the selected
\* layer and resets lineIndex and layerId of the selection; the layer holds
\* the parse of its text afterwards if it had text and no parsed lines, and
\* the lines it had otherwise
C31_SelectParsesUnparsed ==
  [][(op'.name = "selectChatLayer" /\ LayerIndex(Cur, op'.arg[1]) # 0)
       => /\ selectedChatLayerId' = op'.arg[1]
          /\ selectedText'.lineIndex = -1
          /\ selectedText'.layerId = -1
          /\ Len(chatLayers') = Len(chatLayers)
          /\ IF /\ chatLayers[LayerIndex(Cur, op'.arg[1])].text # <<>>
                /\ chatLayers[LayerIndex(Cur, op'.arg[1])].parsedLines = <<>>
               THEN ParsedUnder(chatLayers'[LayerIndex(Cur, op'.arg[1])],
                                stripTimestamps, characterName)
               ELSE chatLayers'[LayerIndex(Cur, op'.arg[1])].parsedLines
                      = chatLayers[LayerIndex(Cur, op'.arg[1])].parsedLines]_vars

\* the first of two layers has been selected and holds its stamped text
\* parsed without the timestamp
C31_Witness ==
  /\ op.name = "selectChatLayer"
  /\ op.arg = <<chatLayers[1].id>>
  /\ Len(chatLayers) = 2
  /\ selectedChatLayerId = chatLayers[1].id
  /\ stripTimestamps
  /\ chatLayers[1].text = T_stamp \o <<"a">>
  /\ chatLayers[1].parsedLines # <<>>
  /\ InSync(1)

\* C37: a parse changes the parsed lines of the parsed layer only: the
\* import and the selection leave the lines of every other layer as they
\* were, and after a page load every restored layer holds the parse of its
\* own text
C37_ParseFrame ==
  [][/\ op'.name = "handleChatFileSelect" => OthersKeepLines(activeChatLayer(Cur))
     /\ (op'.name = "selectChatLayer" /\ LayerIndex(Cur, op'.arg[1]) # 0)
          => OthersKeepLines(LayerIndex(Cur, op'.arg[1]))
     /\ (op'.name = "onMounted" /\ cookie # NoCookie)
          => \A i \in 1..Len(chatLayers') :
               ParsedUnder(chatLayers'[i], stripTimestamps', characterName')]_vars

\* C38: a parse leaves the visible flag, name, text and transform of the
\* parsed layer and the censor regions as they were: the selection of a
\* layer keeps every saved field of every layer, the import keeps all but
\* the text it assigns
C38_ParseKeepsLayerFields ==
  [][/\ (op'.name = "selectChatLayer" /\ LayerIndex(Cur, op'.arg[1]) # 0)
          => /\ SavedLayers(chatLayers') = SavedLayers(chatLayers)
             /\ censoredRegions' = censoredRegions
     /\ op'.name = "handleChatFileSelect"
          => /\ Len(chatLayers') = Len(chatLayers)
             /\ \A i \in 1..Len(chatLayers) :
                  /\ chatLayers'[i].visible = chatLayers[i].visible
                  /\ chatLayers'[i].name = chatLayers[i].name
                  /\ chatLayers'[i].transform = chatLayers[i].transform
                  /\ chatLayers'[i].id = chatLayers[i].id
             /\ censoredRegions' = censoredRegions]_vars

\* C32: of two uploads whose reads are pending together, the one started
\* later supersedes the earlier one: when every read has delivered its load
\* event, the background image is the result of the read started last
C32_LaterUploadWins ==
  (/\ op.name = "reader.onload"
   /\ Len(readers) >= 2
   /\ \A k \in 1..Len(readers) : readers[k].loaded)
    => droppedImageSrc = readers[Len(readers)].result

\* C33: the image input and the drop zone accept a file exactly when its
\* MIME type is an image type or its name has an image extension
C33_SameAcceptance ==
  [][(/\ op'.name \in {"handleFileSelect", "handleDrop"}
      /\ op'.arg[1] # <<>>
      /\ droppedImageSrc = Null)
       => ((droppedImageSrc' # Null)
             <=> (TypedImage(op'.arg[1][1]) \/ NamedImage(op'.arg[1][1])))]_vars

\* the pair of document listeners of each gesture
ImagePanListeners ==
  {<<"mousemove", "handleImageMouseMove">>, <<"mouseup", "handleImageMouseUpOrLeave">>}
ChatPanListeners ==
  {<<"mousemove", "handleChatMouseMove">>, <<"mouseup", "handleChatMouseUpOrLeave">>}

\* the resize gesture alone: its pair of listeners is registered exactly
\* while the panel is being resized
ResizeListenersWhileActive ==
  /\ isResizingChatPanel => ResizeListeners \subseteq listeners
  /\ ~isResizingChatPanel => listeners \cap ResizeListeners = {}

\* C34: the move and up listeners of a gesture are registered on the
\* document exactly while the gesture is under way, for the image drag, the
\* chat drag and the resize of the panel; no other listener is registered
C34_ListenersWhileActive ==
  /\ ResizeListenersWhileActive
  /\ isPanning => ImagePanListeners \subseteq listeners
  /\ ~isPanning => listeners \cap ImagePanListeners = {}
  /\ isChatPanning => ChatPanListeners \subseteq listeners
  /\ ~isChatPanning => listeners \cap ChatPanListeners = {}
  /\ listeners \subseteq ResizeListeners \cup ImagePanListeners \cup ChatPanListeners

\* layer i of the store is one that an export paints
Painted(i) == chatLayers[i].visible /\ Len(chatLayers[i].parsedLines) > 0

\* the index in the store of the layer with identifier id
IndexOfId(id) == LayerIndex(Cur, id)

\* C35: an export holds runs and paint operations of those layers only that
\* are visible and have parsed lines, of each of them, in the order of the
\* store, and every paint operation is positioned by the transform of its
\* layer; the overlay of a layer is on the page only if it is visible and
\* has parsed lines
C35_HiddenLayersNotPainted ==
  /\ \A i \in 1..Len(chatLayers) : OverlayShown(i) => Painted(i)
  /\ (op.name = "saveImage" /\ droppedImageSrc # Null)
       => /\ \A k \in 1..Len(canvas.runs) :
               /\ IndexOfId(canvas.runs[k].layerId) # 0
               /\ Painted(IndexOfId(canvas.runs[k].layerId))
          /\ \A k \in 1..Len(canvas.ops) :
               /\ IndexOfId(canvas.ops[k].layerId) # 0
               /\ Painted(IndexOfId(canvas.ops[k].layerId))
               /\ canvas.ops[k].transform = chatLayers[IndexOfId(canvas.ops[k].layerId)].transform
          /\ \A j, k \in 1..Len(canvas.runs) :
               j < k => IndexOfId(canvas.runs[j].layerId) <= IndexOfId(canvas.runs[k].layerId)
          /\ \A i \in 1..Len(chatLayers) :
               Painted(i) => \E k \in 1..Len(canvas.runs) : canvas.runs[k].layerId = chatLayers[i].id

\* an export of two layers with lines: the first hidden, the second shown
\* and dragged from its place
C35_Witness ==
  /\ op.name = "saveImage"
  /\ droppedImageSrc # Null
  /\ Len(chatLayers) = 2
  /\ ~chatLayers[1].visible
  /\ Len(chatLayers[1].parsedLines) > 0
  /\ Painted(2)
  /\ chatLayers[2].transform.x # 0
  /\ canvas.ops # <<>>

\* C36: after resetSession the store holds one layer, with empty text, no
\* parsed lines, the identity transform and visible, which is the selected
\* one; there is no censor region, the selection context is reset and the
\* background image is cleared
C36_ResetLeavesOneLayer ==
  op.name = "resetSession"
    => /\ Len(chatLayers) = 1
       /\ chatLayers[1].text = <<>>
       /\ chatLayers[1].parsedLines = <<>>
       /\ chatLayers[1].transform = Transform0
       /\ chatLayers[1].visible
       /\ selectedChatLayerId = chatLayers[1].id
       /\ censoredRegions = <<>>
       /\ selectedText.lineIndex = -1
       /\ selectedText.layerId = -1
       /\ droppedImageSrc = Null

\* a session of two layers with a censor region has been reset and saved;
\* the layer that is left is a new one
C36_Witness ==
  /\ op.name = "resetSession"
  /\ op.pre.layers = 2
  /\ op.pre.regions >= 1
  /\ cookie # NoCookie
  /\ cookie[1].chatLayers = SavedLayers(chatLayers)
  /\ chatLayers[1].id > 1

\* C39: the layerId of every censor region is the id of a layer of the store
C39_RegionsOfStoredLayers ==
  \A k \in 1..Len(censoredRegions) : censoredRegions[k].layerId \in LayerIds(chatLayers)

\* a layer has been removed while another layer had a censor region
C39_Witness ==
  /\ op.name = "removeChatLayer"
  /\ op.pre.layers = 2
  /\ Len(chatLayers) = 1
  /\ Len(censoredRegions) >= 1

\* C40: the image drag/zoom mode and the chat drag/zoom mode are never
\* enabled together
C40_OneDragMode == ~(isImageDraggingEnabled /\ isChatDraggingEnabled)

\* the chat mode has been switched on while the image mode was on
C40_Witness ==
  /\ op.name = "toggleChatDrag"
  /\ op.arg = <<TRUE>>
  /\ isChatDraggingEnabled
  /\ ~isImageDraggingEnabled

====
